---- MODULE Spec2Model ----
(***************************************************************************)
(* Model of the skill validation + packaging pipeline of skill-factory:    *)
(* SkillValidator (validate_skill.py) and SkillPackager (package_skill.py).*)
(*                                                                         *)
(* A bundle (the skill directory) is a record of the facts the code reads  *)
(* from the file system.  Library calls whose result the code only         *)
(* branches on (yaml.safe_load, ast.parse, Path.exists, glob) are inputs:  *)
(* the bundle records their outcome.  I/O calls that may raise are listed  *)
(* in FaultPoints; the set of calls that raise is part of the environment. *)
(***************************************************************************)
EXTENDS Integers, Sequences, FiniteSets, TLC

VARIABLES
    bundle,     \* the skill directory on disk
    faults,     \* environment: the I/O calls that raise (subset of FaultPoints)
    issues,     \* SkillValidator.issues of the current validator instance
    is_valid,   \* first component of the last validate() result (read only
                \* once calls is not empty)
    groups,     \* rule groups entered by the last validate() call, in order
    calls,      \* per validate() call on the current instance: the prefix length
                \* of `issues` before the call (a sequence; Len = number of calls)
    pk,         \* the SkillPackager instance and the position inside package()
    out_file,   \* the file at the resolved output path
    events,     \* observable steps of package(), in order
    archive,    \* the entries of the archive that package() wrote at the
                \* output path, <<>> while it wrote none
    cli,        \* the command-line run: its arguments, what it printed as
                \* JSON, its exit code
    batch       \* the package_multiple_skills call: the directory it lists,
                \* its position and its two result lists

vars == <<bundle, faults, issues, is_valid, groups, calls, pk, out_file, events, archive,
          cli, batch>>

----------------------------------------------------------------------------
(* Bounds of the model *)

MaxLines == 2      \* body lines of SKILL.md that are modelled word by word
MaxScripts == 1    \* *.py files directly in scripts/
MaxItems == 1      \* unexpected root items / placeholder matches / secret matches
MaxCalls == 2      \* validate() calls on one SkillValidator instance

----------------------------------------------------------------------------
(* ValidationIssue and Severity *)

Severity == {"ERROR", "WARNING", "INFO"}

\* ValidationIssue: message is the message template, subject what it is
\* formatted with (a key, a file, a pattern), line_number 0 stands for None.
ValidationIssue(sev, msg, subj, line) ==
    [severity |-> sev, message |-> msg, subject |-> subj, line_number |-> line]

\* Concatenation of a sequence of sequences.
RECURSIVE Flatten(_)
Flatten(ss) == IF ss = <<>> THEN <<>> ELSE Head(ss) \o Flatten(Tail(ss))

Range(s) == {s[i] : i \in DOMAIN s}

Count(s, sev) == Cardinality({i \in DOMAIN s : s[i].severity = sev})

----------------------------------------------------------------------------
(* SKILL.md as _validate_skill_md reads it.                                *)
(*   starts      content.startswith('---\n')                               *)
(*   closed      content.split('---\n', 2) has three parts                 *)
(*   yaml        what yaml.safe_load(frontmatter_text) gives: "error" (it  *)
(*               raises YAMLError), "null" (None), "int" (a value `in`     *)
(*               cannot test), "str" (a string or list: `in` works, ['k']  *)
(*               raises TypeError), "map" (a mapping)                      *)
(*   keys        the required keys k for which `k in frontmatter` is true  *)
(*   name        frontmatter['name']: "slug", "nonslug" (a non-empty string*)
(*               off the slug pattern), "nonstr" (empty or not a string)   *)
(*   desc        frontmatter['description']: is it a non-empty string, its *)
(*               word count, does it contain you/your                      *)
(*   fm_newlines frontmatter_text.count('\n')                              *)
(*   sections    indices of REQUIRED_SECTION_PATTERNS found in the body    *)
(*   lines       the first lines of the body, each a sequence of words     *)
(*   tail_words  words of the rest of the body (headings and neutral text, *)
(*               no forbidden pattern)                                     *)

REQUIRED_FRONTMATTER_KEYS == <<"name", "description", "license">>

NumSectionPatterns == 4

\* FORBIDDEN_PATTERNS: the name of each entry, in table order.
FORBIDDEN_PATTERNS ==
    << "Second-person pronoun 'you'", "Second-person possessive 'your'",
       "Placeholder text in brackets", "Lorem ipsum placeholder",
       "TODO comment", "FIXME comment", "XXX marker" >>

\* 'you' in name.lower(), for the names of FORBIDDEN_PATTERNS.
NameMentionsYou(name) ==
    name \in {"Second-person pronoun 'you'", "Second-person possessive 'your'"}

DescMinWords == 10
DescMaxWords == 100
BodyMinWords == 50
BodyMaxWords == 5000

\* The words body lines are made of.
Words == {"you", "You", "your", "YOUR", "youth", "load", "file",
          "[x]", "Lorem", "ipsum", "TODO:", "FIXME:", "XXX:"}

\* Case folding of re.IGNORECASE on the pronouns.
Fold(w) == CASE w = "You" -> "you" [] w = "YOUR" -> "your" [] OTHER -> w

\* PatternMatches without re.IGNORECASE on the pronouns.
PatternMatches_case_sensitive(p, line) ==
    CASE p = 1 -> \E i \in DOMAIN line : line[i] = "you"
      [] p = 2 -> \E i \in DOMAIN line : line[i] = "your"
      [] p = 3 -> \E i \in DOMAIN line : line[i] = "[x]"
      [] p = 4 -> \E i \in DOMAIN line :
                     line[i] = "Lorem" /\ i + 1 \in DOMAIN line /\ line[i + 1] = "ipsum"
      [] p = 5 -> \E i \in DOMAIN line : line[i] = "TODO:"
      [] p = 6 -> \E i \in DOMAIN line : line[i] = "FIXME:"
      [] p = 7 -> \E i \in DOMAIN line : line[i] = "XXX:"

\* re.search(FORBIDDEN_PATTERNS[p].pattern, line, re.IGNORECASE): \b...\b
\* matches a whole word only ("youth" holds no match of \byou\b).
PatternMatches(p, line) ==
    CASE p = 1 -> \E i \in DOMAIN line : Fold(line[i]) = "you"
      [] p = 2 -> \E i \in DOMAIN line : Fold(line[i]) = "your"
      [] p = 3 -> \E i \in DOMAIN line : line[i] = "[x]"
      [] p = 4 -> \E i \in DOMAIN line :
                     line[i] = "Lorem" /\ i + 1 \in DOMAIN line /\ line[i + 1] = "ipsum"
      [] p = 5 -> \E i \in DOMAIN line : line[i] = "TODO:"
      [] p = 6 -> \E i \in DOMAIN line : line[i] = "FIXME:"
      [] p = 7 -> \E i \in DOMAIN line : line[i] = "XXX:"

RECURSIVE SumLen(_)
SumLen(ls) == IF ls = <<>> THEN 0 ELSE Len(Head(ls)) + SumLen(Tail(ls))

\* len(body.split())
BodyWordCount(m) == SumLen(m.lines) + m.tail_words

ErrorReadingSkillMd ==
    ValidationIssue("ERROR", "Error reading SKILL.md", "", 0)

\* MissingKeyIssues that stops at the first missing key.
MissingKeyIssues_first_only(m) ==
    LET missing == {i \in 1..Len(REQUIRED_FRONTMATTER_KEYS) :
                        REQUIRED_FRONTMATTER_KEYS[i] \notin m.keys}
    IN  IF missing = {} THEN <<>>
        ELSE << ValidationIssue("ERROR", "Missing required frontmatter key",
                    REQUIRED_FRONTMATTER_KEYS[CHOOSE i \in missing : \A j \in missing : i <= j],
                    0) >>

\* lines 186-193: one ERROR per required key that is not in the frontmatter
MissingKeyIssues(m) ==
    Flatten([i \in 1..Len(REQUIRED_FRONTMATTER_KEYS) |->
        IF REQUIRED_FRONTMATTER_KEYS[i] \notin m.keys
        THEN << ValidationIssue("ERROR", "Missing required frontmatter key",
                                REQUIRED_FRONTMATTER_KEYS[i], 0) >>
        ELSE <<>>])

\* NameIssues that only warns about an empty or non-string name.
NameIssues_warns_always(m) ==
    IF "name" \notin m.keys THEN <<>>
    ELSE IF m.name \in {"nonstr", "nonslug"}
    THEN << ValidationIssue("WARNING", "Skill name should use lowercase and hyphens only", "", 0) >>
    ELSE <<>>

\* lines 196-211
NameIssues(m) ==
    IF "name" \notin m.keys THEN <<>>
    ELSE IF m.name = "nonstr"
    THEN << ValidationIssue("ERROR", "'name' must be a non-empty string", "", 0) >>
    ELSE IF m.name = "nonslug"
    THEN << ValidationIssue("WARNING", "Skill name should use lowercase and hyphens only", "", 0) >>
    ELSE <<>>

\* lines 213-247
DescriptionIssues(m) ==
    IF "description" \notin m.keys THEN <<>>
    ELSE IF ~m.desc.str
    THEN << ValidationIssue("ERROR", "'description' must be a non-empty string", "", 0) >>
    ELSE (IF m.desc.words < DescMinWords
          THEN << ValidationIssue("WARNING", "Description is very short", "", 0) >>
          ELSE IF m.desc.words > DescMaxWords
          THEN << ValidationIssue("WARNING", "Description is very long", "", 0) >>
          ELSE <<>>)
         \o
         (IF m.desc.you
          THEN << ValidationIssue("ERROR", "Description contains second-person pronouns", "", 0) >>
          ELSE <<>>)

\* lines 250-257
SectionIssues(m) ==
    Flatten([i \in 1..NumSectionPatterns |->
        IF i \notin m.sections
        THEN << ValidationIssue("WARNING", "Missing recommended section", ToString(i), 0) >>
        ELSE <<>>])

\* LineIssues that numbers the lines from the frontmatter's closing delimiter.
LineIssues_from_delimiter(m, line_num) ==
    Flatten([p \in 1..Len(FORBIDDEN_PATTERNS) |->
        IF PatternMatches(p, m.lines[line_num])
        THEN << ValidationIssue(
                    IF NameMentionsYou(FORBIDDEN_PATTERNS[p]) THEN "ERROR" ELSE "WARNING",
                    "Found forbidden pattern", FORBIDDEN_PATTERNS[p],
                    line_num + m.fm_newlines + 1) >>
        ELSE <<>>])

\* lines 262-270: the issues of one body line, one per pattern found in it
LineIssues(m, line_num) ==
    Flatten([p \in 1..Len(FORBIDDEN_PATTERNS) |->
        IF PatternMatches(p, m.lines[line_num])
        THEN << ValidationIssue(
                    IF NameMentionsYou(FORBIDDEN_PATTERNS[p]) THEN "ERROR" ELSE "WARNING",
                    "Found forbidden pattern", FORBIDDEN_PATTERNS[p],
                    line_num + m.fm_newlines + 2) >>
        ELSE <<>>])

\* lines 260-270
ForbiddenIssues(m) ==
    Flatten([line_num \in 1..Len(m.lines) |-> LineIssues(m, line_num)])

\* lines 273-287
WordCountIssues(m) ==
    IF BodyWordCount(m) < BodyMinWords
    THEN << ValidationIssue("WARNING", "SKILL.md body is very short", "", 0) >>
    ELSE IF BodyWordCount(m) > BodyMaxWords
    THEN << ValidationIssue("WARNING", "SKILL.md body is very long", "", 0) >>
    ELSE <<>>

\* _validate_skill_md (rule group 1): the issues it appends.  A TypeError of
\* `key not in frontmatter` or frontmatter['name'] is caught at line 297.
validate_skill_md(m, F) ==
    IF "read_skill_md" \in F THEN << ErrorReadingSkillMd >>
    ELSE IF ~m.starts
    THEN << ValidationIssue("ERROR", "SKILL.md must start with YAML frontmatter", "", 1) >>
    ELSE IF ~m.closed
    THEN << ValidationIssue("ERROR", "YAML frontmatter not properly closed", "", 0) >>
    ELSE IF m.yaml = "error"
    THEN << ValidationIssue("ERROR", "YAML frontmatter parsing error", "", 0) >>
    ELSE IF m.yaml = "null"
    THEN << ValidationIssue("ERROR", "YAML frontmatter is empty", "", 0) >>
    ELSE IF m.yaml = "int" THEN << ErrorReadingSkillMd >>
    ELSE IF m.yaml = "str" /\ "name" \in m.keys
    THEN MissingKeyIssues(m) \o << ErrorReadingSkillMd >>
    ELSE IF m.yaml = "str" /\ "description" \in m.keys
    THEN MissingKeyIssues(m) \o << ErrorReadingSkillMd >>
    ELSE MissingKeyIssues(m) \o NameIssues(m) \o DescriptionIssues(m)
         \o SectionIssues(m) \o ForbiddenIssues(m) \o WordCountIssues(m)

----------------------------------------------------------------------------
(* The bundle directory as the validator and the packager read it.         *)
(*   path          skill_path: "missing", "file" or "dir"                  *)
(*   has_skill_md  SKILL.md exists in skill_path                           *)
(*   manifest      SKILL.md (see above)                                    *)
(*   folder_slug   the folder name matches the slug pattern                *)
(*   root_extra    number of root items that are neither hidden nor in     *)
(*                 expected_root_items                                     *)
(*   scripts, references, assets   "absent", "file" or "dir"               *)
(*   py_files      scripts/*.py, in glob order; of each file: can it be    *)
(*                 read, does ast.parse accept it (else the SyntaxError's  *)
(*                 lineno), module docstring, try/except, __main__ guard   *)
(*   ref_docs      references/ holds a *.md or *.txt file                  *)
(*   testing_guide TESTING_GUIDE exists                                    *)
(*   placeholders  matches of placeholder_pattern in the scanned files     *)
(*   secrets       matches of SECRETS_PATTERNS in the scanned files        *)

\* The I/O calls of validate() that may raise: Path.exists at line 94,
\* read_text at 144, iterdir at 323, Path.exists at 404, glob at 408,
\* rglob at 488 and rglob at 530.
FaultPoints == {"stat_path", "read_skill_md", "iterdir", "stat_scripts",
                "glob_scripts", "rglob_quality", "rglob_secrets"}

\* lines 323-332
UnexpectedItemIssues(b) ==
    [i \in 1..b.root_extra |->
        ValidationIssue("INFO", "Unexpected item in skill root", ToString(i), 0)]

\* lines 334-392
FolderIssues(b) ==
    (IF b.scripts = "file"
     THEN << ValidationIssue("ERROR", "'scripts' exists but is not a directory", "", 0) >>
     ELSE IF b.scripts = "dir" /\ b.py_files = <<>>
     THEN << ValidationIssue("WARNING", "scripts/ folder exists but contains no .py files", "", 0) >>
     ELSE <<>>)
    \o
    (IF b.references = "file"
     THEN << ValidationIssue("ERROR", "'references' exists but is not a directory", "", 0) >>
     ELSE IF b.references = "dir" /\ ~b.ref_docs
     THEN << ValidationIssue("INFO", "references/ folder exists but contains no documentation files", "", 0) >>
     ELSE <<>>)
    \o
    (IF b.assets = "file"
     THEN << ValidationIssue("ERROR", "'assets' exists but is not a directory", "", 0) >>
     ELSE <<>>)
    \o
    (IF ~b.testing_guide
     THEN << ValidationIssue("INFO", "No TESTING_GUIDE/ folder found", "", 0) >>
     ELSE <<>>)

\* _validate_file_structure (rule group 2)
validate_file_structure(b, F) ==
    (IF ~b.folder_slug
     THEN << ValidationIssue("WARNING", "Skill folder name should use lowercase and hyphens only", "", 0) >>
     ELSE <<>>)
    \o
    (IF "iterdir" \in F
     THEN << ValidationIssue("ERROR", "Error validating file structure", "", 0) >>
     ELSE UnexpectedItemIssues(b) \o FolderIssues(b))

\* lines 411-473: the issues of one script file
ScriptIssues(f, i) ==
    IF ~f.readable
    THEN << ValidationIssue("ERROR", "Error reading script", ToString(i), 0) >>
    ELSE IF ~f.syntax_ok
    THEN << ValidationIssue("ERROR", "Python syntax error", ToString(i), f.lineno) >>
    ELSE (IF ~f.docstring
          THEN << ValidationIssue("WARNING", "Missing module docstring", ToString(i), 0) >>
          ELSE <<>>)
         \o
         (IF ~f.try_except
          THEN << ValidationIssue("WARNING", "No error handling (try/except) found", ToString(i), 0) >>
          ELSE <<>>)
         \o
         (IF ~f.main_guard
          THEN << ValidationIssue("INFO", "No __main__ guard", ToString(i), 0) >>
          ELSE <<>>)

\* _validate_python_scripts (rule group 3), from line 407 on: the existence
\* test of lines 403-405 is outside the try and is part of validate below.
\* The glob of a scripts that is a file yields nothing.
validate_python_scripts(b, F) ==
    IF "glob_scripts" \in F
    THEN << ValidationIssue("ERROR", "Error validating Python scripts", "", 0) >>
    ELSE IF b.scripts # "dir" THEN <<>>
    ELSE Flatten([i \in 1..Len(b.py_files) |-> ScriptIssues(b.py_files[i], i)])

\* _validate_content_quality (rule group 4)
validate_content_quality(b, F) ==
    IF "rglob_quality" \in F
    THEN << ValidationIssue("WARNING", "Error checking content quality", "", 0) >>
    ELSE [i \in 1..b.placeholders |->
            ValidationIssue("WARNING", "Placeholder text found", ToString(i), i)]

\* check_for_secrets whose handler swallows the failure.
check_for_secrets_silent(b, F) ==
    IF "rglob_secrets" \in F THEN <<>>
    ELSE [i \in 1..b.secrets |->
            ValidationIssue("ERROR", "Secret detected", ToString(i), i)]

\* _check_for_secrets (rule group 5)
check_for_secrets(b, F) ==
    IF "rglob_secrets" \in F
    THEN << ValidationIssue("WARNING", "Error checking for secrets", "", 0) >>
    ELSE [i \in 1..b.secrets |->
            ValidationIssue("ERROR", "Secret detected", ToString(i), i)]

----------------------------------------------------------------------------
(* SkillValidator.validate *)

\* has_errors that looks at the last issue only.
has_errors_last_only(iss) == iss # <<>> /\ iss[Len(iss)].severity = "ERROR"

\* line 128
has_errors(iss) == \E i \in DOMAIN iss : iss[i].severity = "ERROR"

\* lines 94-118: a failed precondition appends one ERROR and returns
precondition_failure(iss, msg, ran) ==
    [is_valid |-> FALSE,
     issues |-> Append(iss, ValidationIssue("ERROR", msg, "", 0)),
     groups |-> ran]

\* lines 132-138: the handler of an exception that escapes the rule groups
unexpected_error(iss, ran) ==
    [is_valid |-> FALSE,
     issues |-> Append(iss, ValidationIssue("ERROR", "Unexpected error during validation", "", 0)),
     groups |-> ran]

\* lines 120-130, from the call of group 3 on; iss holds the issues so far
run_from_scripts(iss, b, F) ==
    IF "stat_scripts" \in F THEN unexpected_error(iss, <<1, 2, 3>>)
    ELSE LET i3 == iss \o (IF b.scripts = "absent" THEN <<>>
                           ELSE validate_python_scripts(b, F))
             i4 == i3 \o validate_content_quality(b, F)
             i5 == i4 \o check_for_secrets(b, F)
         IN  [is_valid |-> ~has_errors(i5), issues |-> i5, groups |-> <<1, 2, 3, 4, 5>>]

\* run_groups with the first two groups called in the other order.
run_groups_structure_first(iss, b, F) ==
    LET i1 == iss \o validate_file_structure(b, F)
        i2 == i1 \o validate_skill_md(b.manifest, F)
    IN  run_from_scripts(i2, b, F)

\* lines 120-130
run_groups(iss, b, F) ==
    LET i1 == iss \o validate_skill_md(b.manifest, F)
        i2 == i1 \o validate_file_structure(b, F)
    IN  run_from_scripts(i2, b, F)

\* validate() without the test that SKILL.md exists.
validate_skips_manifest_check(iss, b, F) ==
    IF "stat_path" \in F THEN unexpected_error(iss, <<>>)
    ELSE IF b.path = "missing"
    THEN precondition_failure(iss, "Skill path does not exist", <<>>)
    ELSE IF b.path = "file"
    THEN precondition_failure(iss, "Skill path is not a directory", <<>>)
    ELSE run_groups(iss, b, F)

\* validate(): iss is self.issues when the call starts.  The result is
\* (is_valid, self.issues) and the rule groups that were entered.
validate(iss, b, F) ==
    IF "stat_path" \in F THEN unexpected_error(iss, <<>>)
    ELSE IF b.path = "missing"
    THEN precondition_failure(iss, "Skill path does not exist", <<>>)
    ELSE IF b.path = "file"
    THEN precondition_failure(iss, "Skill path is not a directory", <<>>)
    ELSE IF ~b.has_skill_md
    THEN precondition_failure(iss, "SKILL.md file not found", <<>>)
    ELSE run_groups(iss, b, F)

----------------------------------------------------------------------------
(* SkillPackager.package.  package() blocks at its two input() calls, so   *)
(* it is three steps: up to the first question it asks (or to its end),    *)
(* and one step per answer.                                                *)

\* What writing the archive can come to: it is written, zipfile.ZipFile
\* cannot open the output for writing, or a write fails part-way.
ZipOutcomes == {"ok", "open_fails", "write_fails"}

\* The answers typed at a prompt.
Answers == {"y", "Y", "n", "yes", ""}

\* response.lower()
Lower(r) == IF r = "Y" THEN "y" ELSE r

\* __init__, lines 64-69.  pc is the position inside package(), result what
\* package() came to, answers the responses read by input() so far.
SkillPackager(validate_flag, force, HAS_VALIDATOR) ==
    [pc |-> "new", should_validate |-> validate_flag /\ HAS_VALIDATOR,
     force |-> force, result |-> "none", answers |-> <<>>]

\* lines 142-161 and the re-raise of 163-165
create_and_return(p, ev, zip) ==
    IF zip = "ok"
    THEN [pk |-> [p EXCEPT !.pc = "done", !.result = "path"],
          out_file |-> "new", events |-> ev \o <<"create_zip", "return_path">>]
    ELSE [pk |-> [p EXCEPT !.pc = "done", !.result = "raised"],
          out_file |-> IF zip = "write_fails" THEN "partial" ELSE "absent",
          events |-> ev \o <<"create_zip", "raise">>]

\* resolve_output that replaces an existing output file without asking.
resolve_output_overwrites_silently(p, ev, out, zip) ==
    create_and_return(p, IF out # "absent" THEN ev \o <<"resolve_output", "unlink">>
                                          ELSE Append(ev, "resolve_output"), zip)

\* lines 127-144: output path resolution, the overwrite question
resolve_output(p, ev, out, zip) ==
    IF out # "absent"
    THEN [pk |-> [p EXCEPT !.pc = "ask_overwrite"], out_file |-> out,
          events |-> ev \o <<"resolve_output", "ask_overwrite">>]
    ELSE create_and_return(p, Append(ev, "resolve_output"), zip)

\* validation_gate that asks about the warnings before it looks at the errors.
validation_gate_warnings_first(p, iss, ev, out, zip) ==
    LET errors == Count(iss, "ERROR") > 0
        warnings == Count(iss, "WARNING") > 0
    IN  IF warnings /\ ~p.force
        THEN [pk |-> [p EXCEPT !.pc = "ask_continue"], out_file |-> out,
              events |-> Append(ev, "ask_continue")]
        ELSE IF errors /\ ~p.force
        THEN [pk |-> [p EXCEPT !.pc = "done", !.result = "raised"], out_file |-> out,
              events |-> Append(ev, "raise")]
        ELSE resolve_output(p, IF errors THEN Append(ev, "force_warning") ELSE ev, out, zip)

\* validation_gate in which force overrides the errors only.
validation_gate_force_errors_only(p, iss, ev, out, zip) ==
    LET errors == Count(iss, "ERROR") > 0
        warnings == Count(iss, "WARNING") > 0
    IN  IF errors /\ ~p.force
        THEN [pk |-> [p EXCEPT !.pc = "done", !.result = "raised"], out_file |-> out,
              events |-> Append(ev, "raise")]
        ELSE IF warnings
        THEN [pk |-> [p EXCEPT !.pc = "ask_continue"], out_file |-> out,
              events |-> Append(IF errors THEN Append(ev, "force_warning") ELSE ev,
                                "ask_continue")]
        ELSE resolve_output(p, IF errors THEN Append(ev, "force_warning") ELSE ev, out, zip)

\* validation_gate that asks about INFO issues as it does about warnings.
validation_gate_asks_on_info(p, iss, ev, out, zip) ==
    LET errors == Count(iss, "ERROR") > 0
        warnings == Count(iss, "WARNING") + Count(iss, "INFO") > 0
    IN  IF errors /\ ~p.force
        THEN [pk |-> [p EXCEPT !.pc = "done", !.result = "raised"], out_file |-> out,
              events |-> Append(ev, "raise")]
        ELSE IF warnings /\ ~p.force
        THEN [pk |-> [p EXCEPT !.pc = "ask_continue"], out_file |-> out,
              events |-> Append(ev, "ask_continue")]
        ELSE resolve_output(p, IF errors THEN Append(ev, "force_warning") ELSE ev, out, zip)

\* lines 95-125: the validation gate, given validate()'s issue list
validation_gate(p, iss, ev, out, zip) ==
    LET errors == Count(iss, "ERROR") > 0
        warnings == Count(iss, "WARNING") > 0
    IN  IF errors /\ ~p.force
        THEN [pk |-> [p EXCEPT !.pc = "done", !.result = "raised"], out_file |-> out,
              events |-> Append(ev, "raise")]
        ELSE IF warnings /\ ~p.force
        THEN [pk |-> [p EXCEPT !.pc = "ask_continue"], out_file |-> out,
              events |-> Append(ev, "ask_continue")]
        ELSE resolve_output(p, IF errors THEN Append(ev, "force_warning") ELSE ev, out, zip)

\* The command line: prog is the program run ("none" when the classes are
\* called as a library), strict and json the flags of validate_skill_cli,
\* has_path whether package_skill_cli was given a skill path, printed the
\* 'valid' field of the JSON output (<<>> when no JSON was printed).
CommandLine(prog, strict, json, has_path) ==
    [prog |-> prog, strict |-> strict, json |-> json, has_path |-> has_path,
     exited |-> FALSE, exit_code |-> 0, printed |-> <<>>]

NoCli == CommandLine("none", FALSE, FALSE, FALSE)

\* sys.exit(code)
sys_exit(c, code) == [c EXCEPT !.exited = TRUE, !.exit_code = code]

\* exit_code_of that takes a declined confirmation for a success.
exit_code_of_null_is_success(result) ==
    CASE result = "path" -> 0
      [] result = "null" -> 0
      [] result = "raised" -> 1
      [] result = "interrupted" -> 130

\* package_skill_cli, lines 425-437: the exit code for what package() came to
exit_code_of(result) ==
    CASE result = "path" -> 0
      [] result = "null" -> 1
      [] result = "raised" -> 1
      [] result = "interrupted" -> 130

\* package_skill_cli, lines 418-437, after package() has ended as p says;
\* nothing when package() was not called from the command line or still
\* waits for an answer.
cli_exit(c, p) ==
    IF c.prog = "package" /\ p.pc = "done" THEN sys_exit(c, exit_code_of(p.result)) ELSE c

\* package_precondition without the SKILL.md check.
package_precondition_dir_only(b) == b.path = "dir"

\* lines 76-87: the preconditions of package()
package_precondition(b) == b.path = "dir" /\ b.has_skill_md

----------------------------------------------------------------------------
(* The files of the bundle as the packager walks them.                     *)
(*                                                                         *)
(* bundle.tree is a set of nodes [path, kind, data, size, readable]: path   *)
(* is the sequence of the components of the path relative to the bundle     *)
(* root, each component a sequence of tokens (the pieces of a name that the *)
(* patterns tell apart: <<"test_", "script", ".py">> is test_script.py);    *)
(* kind is "file" or "dir"; data stands for the bytes of a file.  The       *)
(* directories above a node exist without being listed.                     *)
(* bundle.skill_md_kind, bundle.license_txt and bundle.license say what is  *)
(* at SKILL.md, LICENSE.txt and LICENSE ("absent", "file" or "dir").        *)

Node(path, kind, data, size, readable) ==
    [path |-> path, kind |-> kind, data |-> data, size |-> size, readable |-> readable]

\* str(rel_path).replace('\\', '/'): the components joined by "/"
RECURSIVE PathStr(_)
PathStr(path) ==
    IF Len(path) = 1 THEN path[1]
    ELSE path[1] \o <<"/">> \o PathStr(Tail(path))

\* file_path.name
BaseName(path) == path[Len(path)]

\* EXCLUDED_PATTERNS, lines 35-62, each pattern as its tokens
EXCLUDED_PATTERNS ==
    << <<"TESTING_GUIDE">>,
       <<"TESTING_GUIDE", "/", "*">>,
       <<"TESTING_GUIDE", "/", "*", "*", "/", "*">>,
       <<"*", ".zip">>,
       <<".", "*">>,
       <<".", "git">>,
       <<".", "git", "/", "*">>,
       <<".", "git", "/", "*", "*", "/", "*">>,
       <<".", "gitignore">>,
       <<".", "DS_Store">>,
       <<"Thumbs", ".db">>,
       <<"__pycache__">>,
       <<"__pycache__", "/", "*">>,
       <<"__pycache__", "/", "*", "*", "/", "*">>,
       <<"*", ".pyc">>,
       <<"*", ".pyo">>,
       <<"*", ".pyd">>,
       <<"test_", "*", ".py">>,
       <<"*", "_test", ".py">>,
       <<"tests">>,
       <<"tests", "/", "*">>,
       <<"tests", "/", "*", "*", "/", "*">>,
       <<"*", ".backup">>,
       <<"*", ".bak">>,
       <<"*", ".tmp">>,
       <<"*", "~">> >>

\* fnmatch.fnmatch(name, pat): the whole name matches the pattern, "*"
\* standing for any run of characters, "/" included.
RECURSIVE fnmatch(_, _)
fnmatch(name, pat) ==
    IF pat = <<>> THEN name = <<>>
    ELSE IF Head(pat) = "*"
    THEN fnmatch(name, Tail(pat)) \/ (name # <<>> /\ fnmatch(Tail(name), pat))
    ELSE name # <<>> /\ Head(name) = Head(pat) /\ fnmatch(Tail(name), Tail(pat))

\* should_include that tests the file name alone, not the relative path.
should_include_name_only(path) ==
    \A i \in DOMAIN EXCLUDED_PATTERNS : ~fnmatch(BaseName(path), EXCLUDED_PATTERNS[i])

\* _should_include, lines 206-228 (no pattern of the list starts with "**/")
should_include(path) ==
    \A i \in DOMAIN EXCLUDED_PATTERNS :
        LET pattern == EXCLUDED_PATTERNS[i]
            full_pattern == <<"*", "*", "/">> \o pattern
        IN  ~(\/ fnmatch(PathStr(path), pattern)
              \/ fnmatch(PathStr(path), full_pattern)
              \/ fnmatch(BaseName(path), pattern))

\* The nodes of a tree together with the directories above them.
AllNodes(tree) ==
    tree \cup UNION { { Node(SubSeq(n.path, 1, k), "dir", 0, 0, TRUE) :
                            k \in 1..(Len(n.path) - 1) } : n \in tree }

\* What is at <bundle>/<dir_name>: "absent", "file" or "dir".
DirStatus(b, dir_name) ==
    CASE dir_name = "scripts" -> b.scripts
      [] dir_name = "references" -> b.references
      [] dir_name = "assets" -> b.assets

\* (skill_path / dir_name).glob(pat) for a pattern without "/": the files
\* and directories directly in the directory whose name matches pat.
glob(b, dir_name, pat) ==
    IF DirStatus(b, dir_name) # "dir" THEN {}
    ELSE { n \in AllNodes(b.tree) :
              /\ Len(n.path) = 2 /\ n.path[1] = <<dir_name>>
              /\ fnmatch(BaseName(n.path), pat) }

\* rglob that lists the directory without descending.
rglob_not_recursive(b, dir_name, pat) == glob(b, dir_name, pat)

\* (skill_path / dir_name).rglob(pat): every file and directory at any depth
\* below the directory whose name matches pat; nothing when the directory is
\* missing or is a file.
rglob(b, dir_name, pat) ==
    IF DirStatus(b, dir_name) # "dir" THEN {}
    ELSE { n \in AllNodes(b.tree) :
              /\ Len(n.path) >= 2 /\ n.path[1] = <<dir_name>>
              /\ fnmatch(BaseName(n.path), pat) }

\* line 298: the size from which an asset is recorded without checksum
AssetChecksumLimit == 10 * 1024 * 1024

\* Names for the files that a bundle is only said to have.
Letters == <<"a", "b", "c", "d">>

TestingGuideNode == Node(<< <<"TESTING_GUIDE">>, <<"notes", ".md">> >>, "file", 3, 1, TRUE)

\* The bytes of the script files that ast.parse rejects.
BrokenScriptData == {18, 19}

\* The files that the bundles of the model are made of: ordinary,
\* test-named, nested, inside excluded directories, hidden, compiled,
\* archives, a directory named like a script, scripts with a syntax error,
\* assets at the size limit, and items at the bundle root.
Catalogue ==
    { Node(<< <<"scripts">>, <<"a", ".py">> >>, "file", 11, 1, TRUE),
      Node(<< <<"scripts">>, <<"test_", "script", ".py">> >>, "file", 12, 1, TRUE),
      Node(<< <<"scripts">>, <<"utils">>, <<"helper", ".py">> >>, "file", 13, 1, TRUE),
      Node(<< <<"scripts">>, <<"__pycache__">>, <<"helper", ".txt">> >>, "file", 14, 1, TRUE),
      Node(<< <<"scripts">>, <<"pkg", ".py">>, <<"data", ".txt">> >>, "file", 15, 1, TRUE),
      Node(<< <<"scripts">>, <<"sub">>, <<"TESTING_GUIDE">>, <<"notes", ".md">> >>,
           "file", 16, 1, TRUE),
      Node(<< <<"scripts">>, <<"run", ".sh">> >>, "file", 17, 1, TRUE),
      Node(<< <<"scripts">>, <<"broken", ".py">> >>, "file", 18, 1, TRUE),
      Node(<< <<"scripts">>, <<"utils">>, <<"broken", ".py">> >>, "file", 19, 1, TRUE),
      Node(<< <<"references">>, <<"schema", ".md">> >>, "file", 21, 1, TRUE),
      Node(<< <<"references">>, <<".", "hidden">> >>, "file", 22, 1, TRUE),
      Node(<< <<"references">>, <<"sub">>, <<".", "git">>, <<"config">> >>, "file", 23, 1, TRUE),
      Node(<< <<"references">>, <<"old", ".zip">> >>, "file", 24, 1, TRUE),
      Node(<< <<"assets">>, <<"template", ".txt">> >>, "file", 31, 1, TRUE),
      Node(<< <<"assets">>, <<"img">>, <<"icons">>, <<"logo", ".png">> >>, "file", 32,
           AssetChecksumLimit - 1, TRUE),
      Node(<< <<"assets">>, <<"cache", ".pyc">> >>, "file", 33, 1, TRUE),
      Node(<< <<"assets">>, <<"big", ".bin">> >>, "file", 34, AssetChecksumLimit, TRUE),
      Node(<< <<"old", ".zip">> >>, "file", 41, 1, TRUE),
      Node(<< <<"README", ".md">> >>, "file", 42, 1, TRUE),
      Node(<< <<".", "git">>, <<"config">> >>, "file", 43, 1, TRUE),
      Node(<< <<".", "gitignore">> >>, "file", 44, 1, TRUE) }

\* _should_include on the paths of these files and of the directories above
\* them is computed once; on any other path it is computed on the spot.
KnownPaths ==
    { n.path : n \in AllNodes(Catalogue) }
    \cup { << <<"scripts">>, <<Letters[i], ".py">> >> : i \in DOMAIN Letters }

IncludedPaths == { path \in KnownPaths : should_include(path) }

Included(path) ==
    IF path \in KnownPaths THEN path \in IncludedPaths ELSE should_include(path)

\* lines 185-186: the files of one content directory that go into the archive
IncludedFiles(b, dir_name) ==
    { n \in rglob(b, dir_name, <<"*">>) : n.kind = "file" /\ Included(n.path) }

\* hashlib.sha256 of the bytes `data`, as a value that differs for
\* different data; the sentinel "error" of line 316.
Sha256(data) == <<"sha256", data>>

ChecksumError == <<"error", 0>>

NoChecksum == <<"none", 0>>

\* _calculate_checksum, lines 304-316: open() fails on a directory and on a
\* file that cannot be read
calculate_checksum(kind, data, readable) ==
    IF kind = "file" /\ readable THEN Sha256(data) ELSE ChecksumError

ManifestRecord(group, path, checksum, size) ==
    [group |-> group, path |-> path, checksum |-> checksum, size |-> size]

\* The bytes of SKILL.md and of the license file.
SkillMdData == 1

LicenseData == 2

\* asset_checksum that also checksums a file of exactly the limit.
asset_checksum_at_limit(n) ==
    IF n.size <= AssetChecksumLimit
    THEN calculate_checksum(n.kind, n.data, n.readable)
    ELSE NoChecksum

\* lines 296-299: the checksum of an asset's record, NoChecksum when the
\* record has no 'checksum' key
asset_checksum(n) ==
    IF n.size < AssetChecksumLimit
    THEN calculate_checksum(n.kind, n.data, n.readable)
    ELSE NoChecksum

\* _create_manifest, lines 258-302: manifest['files'] as a set of records
create_manifest(b) ==
    { ManifestRecord("SKILL.md", <<"SKILL", ".md">>,
                     calculate_checksum(b.skill_md_kind, SkillMdData, TRUE), 0) }
    \cup
    { ManifestRecord("scripts", PathStr(n.path),
                     calculate_checksum(n.kind, n.data, n.readable), n.size) :
        n \in { x \in rglob(b, "scripts", <<"*", ".py">>) : Included(x.path) } }
    \cup
    { ManifestRecord("references", PathStr(n.path),
                     calculate_checksum(n.kind, n.data, n.readable), n.size) :
        n \in IncludedFiles(b, "references") }
    \cup
    { ManifestRecord("assets", PathStr(n.path), asset_checksum(n), n.size) :
        n \in IncludedFiles(b, "assets") }

\* An entry of the archive: its name, its bytes, and for manifest.json the
\* 'files' mapping that the bytes encode.
ZipEntry(name, data, files) == [name |-> name, data |-> data, files |-> files]

\* zf.write(path, arcname): ZipInfo.from_file gives a directory the name
\* arcname + "/" and no content.
zf_write(kind, arcname, data) ==
    IF kind = "dir" THEN ZipEntry(arcname \o <<"/">>, 0, {})
    ELSE ZipEntry(arcname, data, {})

\* The orders in which a directory walk can yield the nodes of S.
WalkOrders(S) ==
    { o \in [1..Cardinality(S) -> S] : \A i, j \in DOMAIN o : o[i] = o[j] => i = j }

\* lines 192-197: the first of LICENSE.txt, LICENSE that exists
LicenseEntries(b) ==
    IF b.license_txt # "absent"
    THEN << zf_write(b.license_txt, <<"LICENSE", ".txt">>, LicenseData) >>
    ELSE IF b.license # "absent"
    THEN << zf_write(b.license, <<"LICENSE">>, LicenseData) >>
    ELSE <<>>

\* _create_zip, lines 174-202, when every write succeeds: os, or and oa are
\* the included files of scripts/, references/ and assets/ in walk order.
create_zip(b, os, or, oa) ==
    << zf_write(b.skill_md_kind, <<"SKILL", ".md">>, SkillMdData) >>
    \o [i \in DOMAIN os |-> zf_write("file", PathStr(os[i].path), os[i].data)]
    \o [i \in DOMAIN or |-> zf_write("file", PathStr(or[i].path), or[i].data)]
    \o [i \in DOMAIN oa |-> zf_write("file", PathStr(oa[i].path), oa[i].data)]
    \o LicenseEntries(b)
    \o << ZipEntry(<<"manifest", ".json">>, 0, create_manifest(b)) >>

\* What _create_zip can come to on bundle b: "ok" needs every file it reads
\* to be readable.
zip_outcomes(b) ==
    IF \E d \in {"scripts", "references", "assets"} :
          \E n \in IncludedFiles(b, d) : ~n.readable
    THEN ZipOutcomes \ {"ok"}
    ELSE ZipOutcomes

\* The entries in the file at the output path after _create_zip: all of them
\* when it succeeded, those written before the failure when a write failed
\* (ZipFile.__exit__ closes the archive), none when the file was not opened.
written_archive(b, outcome, old) ==
    LET all == { create_zip(b, os, or, oa) :
                    os \in WalkOrders(IncludedFiles(b, "scripts")),
                    or \in WalkOrders(IncludedFiles(b, "references")),
                    oa \in WalkOrders(IncludedFiles(b, "assets")) }
    IN  CASE outcome = "new" -> all
          [] outcome = "partial" ->
                UNION { { SubSeq(a, 1, k) : k \in 0..(Len(a) - 1) } : a \in all }
          [] outcome = "absent" -> { <<>> }
          [] OTHER -> { old }

\* No package_multiple_skills call.
NoBatch == [pc |-> "none"]

----------------------------------------------------------------------------
(* Initial states: a bundle on disk, the calls that fail, a packager. *)

GoodManifest ==
    [starts |-> TRUE, closed |-> TRUE, yaml |-> "map",
     keys |-> {"name", "description", "license"}, name |-> "slug",
     desc |-> [str |-> TRUE, words |-> 12, you |-> FALSE],
     fm_newlines |-> 3, sections |-> 1..NumSectionPatterns,
     lines |-> <<>>, tail_words |-> 60]

ManifestsSmall ==
    { GoodManifest,
      [GoodManifest EXCEPT !.name = "nonslug"],
      [GoodManifest EXCEPT !.lines = << <<"You", "load">> >>],
      [GoodManifest EXCEPT !.starts = FALSE],
      [GoodManifest EXCEPT !.yaml = "int", !.keys = {}, !.fm_newlines = 1] }

ScriptKinds ==
    { [readable |-> FALSE, syntax_ok |-> TRUE, lineno |-> 0,
       docstring |-> TRUE, try_except |-> TRUE, main_guard |-> TRUE],
      [readable |-> TRUE, syntax_ok |-> FALSE, lineno |-> 2,
       docstring |-> FALSE, try_except |-> FALSE, main_guard |-> FALSE],
      [readable |-> TRUE, syntax_ok |-> TRUE, lineno |-> 0,
       docstring |-> FALSE, try_except |-> FALSE, main_guard |-> FALSE],
      [readable |-> TRUE, syntax_ok |-> TRUE, lineno |-> 0,
       docstring |-> TRUE, try_except |-> TRUE, main_guard |-> TRUE] }

SeqsUpTo(S, n) == UNION {[1..k -> S] : k \in 0..n}

\* The files that the facts about bundle b stand for: a TESTING_GUIDE/ file,
\* the unexpected root items (old.zip first), scripts/<letter>.py per script,
\* references/schema.md.
TreeFor(b) ==
    (IF b.testing_guide THEN {TestingGuideNode} ELSE {})
    \cup { Node(<< IF i = 1 THEN <<"old", ".zip">> ELSE <<Letters[i], ".txt">> >>,
                "file", 4, 1, TRUE) : i \in 1..b.root_extra }
    \cup (IF b.scripts = "dir"
          THEN { Node(<< <<"scripts">>, <<Letters[i], ".py">> >>, "file", 10 + i, 1,
                      b.py_files[i].readable) : i \in DOMAIN b.py_files }
          ELSE {})
    \cup (IF b.references = "dir" /\ b.ref_docs
          THEN { Node(<< <<"references">>, <<"schema", ".md">> >>, "file", 5, 1, TRUE) }
          ELSE {})

WithTree(b) == [b EXCEPT !.tree = TreeFor(b)]

CleanBundle ==
    [path |-> "dir", has_skill_md |-> TRUE, manifest |-> GoodManifest,
     folder_slug |-> TRUE, root_extra |-> 0,
     scripts |-> "absent", py_files |-> <<>>,
     references |-> "absent", ref_docs |-> FALSE, assets |-> "absent",
     testing_guide |-> TRUE, placeholders |-> 0, secrets |-> 0,
     skill_md_kind |-> "file", license_txt |-> "absent", license |-> "absent",
     tree |-> {TestingGuideNode}]

\* A bundle with an ERROR and a WARNING or INFO in each rule group that has one.
DirtyBundle ==
    [CleanBundle EXCEPT
        !.manifest = [GoodManifest EXCEPT !.name = "nonslug",
                                          !.lines = << <<"You", "load">> >>],
        !.folder_slug = FALSE, !.root_extra = 1, !.assets = "file",
        !.scripts = "dir",
        !.py_files = << [readable |-> TRUE, syntax_ok |-> TRUE, lineno |-> 0,
                         docstring |-> FALSE, try_except |-> FALSE, main_guard |-> FALSE] >>,
        !.testing_guide = FALSE, !.placeholders = 1, !.secrets = 1]

\* Bundles that differ in what the content rules (groups 1, 3, 4, 5) read.
ContentBundles ==
    { [CleanBundle EXCEPT !.manifest = m, !.scripts = sc[1], !.py_files = sc[2],
                          !.placeholders = ph, !.secrets = se, !.testing_guide = tg] :
        m \in ManifestsSmall,
        sc \in ({"absent", "file"} \X {<<>>}) \cup ({"dir"} \X SeqsUpTo(ScriptKinds, MaxScripts)),
        ph \in 0..MaxItems, se \in 0..MaxItems, tg \in BOOLEAN }

\* Bundles that differ in what the file-structure rule (group 2) reads.
StructureBundles ==
    { [CleanBundle EXCEPT !.manifest = m, !.folder_slug = fs, !.root_extra = ex,
                          !.references = rf[1], !.ref_docs = rf[2], !.assets = as,
                          !.testing_guide = tg] :
        m \in {GoodManifest, [GoodManifest EXCEPT !.lines = << <<"You", "load">> >>]},
        fs \in BOOLEAN, ex \in 0..MaxItems,
        rf \in {<<"absent", FALSE>>, <<"file", FALSE>>, <<"dir", FALSE>>, <<"dir", TRUE>>},
        as \in {"absent", "file", "dir"}, tg \in BOOLEAN }

\* Bundles that fail a precondition.
BrokenBundles ==
    { [CleanBundle EXCEPT !.path = "missing", !.has_skill_md = FALSE],
      [CleanBundle EXCEPT !.path = "file", !.has_skill_md = FALSE],
      [CleanBundle EXCEPT !.has_skill_md = FALSE] }

\* The bundles on which every combination of failing calls is explored.
FaultBundles ==
    BrokenBundles \cup
    { CleanBundle, DirtyBundle,
      [CleanBundle EXCEPT !.manifest = [GoodManifest EXCEPT !.name = "nonslug"]] }

InitBundle ==
    \/ /\ bundle \in { WithTree(b) : b \in ContentBundles \cup StructureBundles \cup BrokenBundles }
       /\ faults = {}
    \/ /\ bundle \in { WithTree(b) : b \in FaultBundles }
       /\ faults \in SUBSET FaultPoints

InitValidator ==
    /\ issues = <<>>
    /\ is_valid = FALSE
    /\ groups = <<>>
    /\ calls = <<>>

InitPackager ==
    /\ \E flags \in {<<TRUE, TRUE>>, <<FALSE, TRUE>>, <<TRUE, FALSE>>} :
       \E force \in BOOLEAN :
          pk = SkillPackager(flags[1], force, flags[2])
    /\ out_file \in {"absent", "old"}
    /\ events = <<>>
    /\ archive = <<>>

Init == InitBundle /\ InitValidator /\ InitPackager /\ cli = NoCli /\ batch = NoBatch

----------------------------------------------------------------------------
(* Actions *)

\* SkillValidator(path).validate(): a new validator, called once
\* (validate_skill_cli lines 662-665).
Validate ==
    /\ calls = <<>>
    /\ pk.pc = "new"
    /\ LET r == validate(<<>>, bundle, faults)
       IN  /\ issues' = r.issues
           /\ is_valid' = r.is_valid
           /\ groups' = r.groups
    /\ calls' = <<0>>
    /\ UNCHANGED <<bundle, faults, pk, out_file, events, archive, cli, batch>>

\* validate() called again on the same SkillValidator instance.
ValidateAgain ==
    /\ Len(calls) \in 1..(MaxCalls - 1)
    /\ pk.pc = "new"
    /\ LET r == validate(issues, bundle, faults)
       IN  /\ issues' = r.issues
           /\ is_valid' = r.is_valid
           /\ groups' = r.groups
    /\ calls' = Append(calls, Len(issues))
    /\ UNCHANGED <<bundle, faults, pk, out_file, events, archive, cli, batch>>

\* package(), lines 76-87: a precondition fails, ValueError is raised.
PackageRejects ==
    /\ pk.pc = "new"
    /\ ~package_precondition(bundle)
    /\ pk' = [pk EXCEPT !.pc = "done", !.result = "raised"]
    /\ events' = Append(events, "raise")
    /\ cli' = cli_exit(cli, pk')
    /\ UNCHANGED <<bundle, faults, issues, is_valid, groups, calls, out_file, archive, batch>>

\* package(), validation skipped (should_validate false): lines 127 on.
PackageUnvalidated ==
    /\ pk.pc = "new"
    /\ package_precondition(bundle)
    /\ ~pk.should_validate
    /\ \E zip \in zip_outcomes(bundle) :
         LET n == resolve_output(pk, events, out_file, zip)
         IN  /\ pk' = n.pk /\ out_file' = n.out_file /\ events' = n.events
                    /\ archive' \in written_archive(bundle, n.out_file, archive)
    /\ cli' = cli_exit(cli, pk')
    /\ UNCHANGED <<bundle, faults, issues, is_valid, groups, calls, batch>>

\* package() with validation: lines 90-93 build a new SkillValidator and call
\* validate(), then the gate of lines 95-125 and, unless it stops, the rest.
PackageValidated ==
    /\ pk.pc = "new"
    /\ package_precondition(bundle)
    /\ pk.should_validate
    /\ LET r == validate(<<>>, bundle, faults)
       IN  /\ issues' = r.issues
           /\ is_valid' = r.is_valid
           /\ groups' = r.groups
           /\ calls' = <<0>>
           /\ \E zip \in zip_outcomes(bundle) :
                LET n == validation_gate(pk, r.issues, Append(events, "validate"), out_file, zip)
                IN  /\ pk' = n.pk /\ out_file' = n.out_file /\ events' = n.events
                    /\ archive' \in written_archive(bundle, n.out_file, archive)
    /\ cli' = cli_exit(cli, pk')
    /\ UNCHANGED <<bundle, faults, batch>>

\* The answer to "Continue packaging? (y/n)", lines 119-122, and the rest.
AnswerContinue ==
    /\ pk.pc = "ask_continue"
    /\ \E response \in Answers :
         IF Lower(response) # "y"
         THEN /\ pk' = [pk EXCEPT !.pc = "done", !.result = "null",
                                  !.answers = Append(@, response)]
              /\ events' = Append(events, "return_null")
              /\ UNCHANGED <<out_file, archive>>
         ELSE \E zip \in zip_outcomes(bundle) :
                LET n == resolve_output([pk EXCEPT !.answers = Append(@, response)],
                                        events, out_file, zip)
                IN  /\ pk' = n.pk /\ out_file' = n.out_file /\ events' = n.events
                    /\ archive' \in written_archive(bundle, n.out_file, archive)
    /\ cli' = cli_exit(cli, pk')
    /\ UNCHANGED <<bundle, faults, issues, is_valid, groups, calls, batch>>

\* AnswerOverwrite that deletes the old file before it reads the answer.
AnswerOverwrite_unlinks_before_answer ==
    /\ pk.pc = "ask_overwrite"
    /\ \E response \in Answers :
         IF Lower(response) # "y"
         THEN /\ pk' = [pk EXCEPT !.pc = "done", !.result = "null",
                                  !.answers = Append(@, response)]
              /\ events' = events \o <<"unlink", "return_null">>
              /\ out_file' = "absent"
              /\ UNCHANGED archive
         ELSE \E zip \in zip_outcomes(bundle) :
                LET n == create_and_return([pk EXCEPT !.answers = Append(@, response)],
                                           Append(events, "unlink"), zip)
                IN  /\ pk' = n.pk /\ out_file' = n.out_file /\ events' = n.events
                    /\ archive' \in written_archive(bundle, n.out_file, archive)
    /\ cli' = cli_exit(cli, pk')
    /\ UNCHANGED <<bundle, faults, issues, is_valid, groups, calls, batch>>

\* The answer to "Overwrite? (y/n)", lines 136-140, and the rest.
AnswerOverwrite ==
    /\ pk.pc = "ask_overwrite"
    /\ \E response \in Answers :
         IF Lower(response) # "y"
         THEN /\ pk' = [pk EXCEPT !.pc = "done", !.result = "null",
                                  !.answers = Append(@, response)]
              /\ events' = Append(events, "return_null")
              /\ UNCHANGED <<out_file, archive>>
         ELSE \E zip \in zip_outcomes(bundle) :
                LET n == create_and_return([pk EXCEPT !.answers = Append(@, response)],
                                           Append(events, "unlink"), zip)
                IN  /\ pk' = n.pk /\ out_file' = n.out_file /\ events' = n.events
                    /\ archive' \in written_archive(bundle, n.out_file, archive)
    /\ cli' = cli_exit(cli, pk')
    /\ UNCHANGED <<bundle, faults, issues, is_valid, groups, calls, batch>>

Next ==
    \/ Validate
    \/ PackageRejects
    \/ PackageUnvalidated
    \/ PackageValidated
    \/ AnswerContinue
    \/ AnswerOverwrite

Spec == Init /\ [][Next]_vars

\* The same program with validate() called repeatedly on one instance.
NextReuse == Validate \/ ValidateAgain

SpecReuse == Init /\ [][NextReuse]_vars

----------------------------------------------------------------------------
(* The command lines: package_skill_cli in single-bundle mode and          *)
(* validate_skill_cli.                                                     *)

\* Ctrl-C while package() waits at input() (line 119 or 136): the
\* KeyboardInterrupt is no Exception, the handler of line 163 lets it pass.
PromptInterrupted ==
    /\ pk.pc \in {"ask_continue", "ask_overwrite"}
    /\ pk' = [pk EXCEPT !.pc = "done", !.result = "interrupted"]
    /\ events' = Append(events, "interrupt")
    /\ cli' = cli_exit(cli, pk')
    /\ UNCHANGED <<bundle, faults, issues, is_valid, groups, calls, out_file, archive, batch>>

\* package_skill_cli without a skill path, lines 413-415.
PackagerCliNoPath ==
    /\ cli.prog = "package" /\ ~cli.exited /\ ~cli.has_path
    /\ cli' = sys_exit(cli, 1)
    /\ UNCHANGED <<bundle, faults, issues, is_valid, groups, calls, pk, out_file, events,
                   archive, batch>>

\* package_skill_cli is run on a bundle with every combination of
\* --no-validate and --force, or without a skill path.
InitPackagerCli ==
    /\ bundle \in { WithTree(b) : b \in ContentBundles \cup StructureBundles \cup BrokenBundles }
    /\ faults = {}
    /\ InitValidator
    /\ InitPackager
    /\ cli \in { CommandLine("package", FALSE, FALSE, has_path) : has_path \in BOOLEAN }
    /\ cli.has_path \/ (bundle = WithTree(CleanBundle) /\ out_file = "absent")
    /\ batch = NoBatch

NextPackagerCli ==
    \/ cli.has_path /\ PackageRejects
    \/ cli.has_path /\ PackageUnvalidated
    \/ cli.has_path /\ PackageValidated
    \/ AnswerContinue
    \/ AnswerOverwrite
    \/ PromptInterrupted
    \/ PackagerCliNoPath

SpecPackagerCli == InitPackagerCli /\ [][NextPackagerCli]_vars

\* strict_valid without the --strict escalation.
strict_valid_ignores_strict(valid, iss, strict) == valid

\* validate_skill_cli, lines 667-671: --strict makes any WARNING a failure
strict_valid(valid, iss, strict) ==
    IF strict /\ Count(iss, "WARNING") > 0 THEN FALSE ELSE valid

\* validate_skill_cli, lines 662-697: validate, --strict, the output, the exit
ValidateCli ==
    /\ cli.prog = "validate" /\ ~cli.exited
    /\ LET r == validate(<<>>, bundle, faults)
           valid == strict_valid(r.is_valid, r.issues, cli.strict)
       IN  /\ issues' = r.issues
           /\ is_valid' = r.is_valid
           /\ groups' = r.groups
           /\ cli' = [sys_exit(cli, IF valid THEN 0 ELSE 1) EXCEPT
                         !.printed = IF cli.json THEN << valid >> ELSE <<>>]
    /\ calls' = <<0>>
    /\ UNCHANGED <<bundle, faults, pk, out_file, events, archive, batch>>

\* Ctrl-C while validate_skill_cli runs, lines 699-701.
ValidateCliInterrupted ==
    /\ cli.prog = "validate" /\ ~cli.exited
    /\ cli' = sys_exit(cli, 130)
    /\ UNCHANGED <<bundle, faults, issues, is_valid, groups, calls, pk, out_file, events,
                   archive, batch>>

InitValidatorCli ==
    /\ InitBundle
    /\ InitValidator
    /\ pk = SkillPackager(TRUE, FALSE, TRUE)
    /\ out_file = "absent"
    /\ events = <<>>
    /\ archive = <<>>
    /\ cli \in { CommandLine("validate", strict, json, TRUE) :
                    strict \in BOOLEAN, json \in BOOLEAN }
    /\ batch = NoBatch

NextValidatorCli == ValidateCli \/ ValidateCliInterrupted

SpecValidatorCli == InitValidatorCli /\ [][NextValidatorCli]_vars

----------------------------------------------------------------------------
(* package_multiple_skills.  Like package() it blocks at the input() calls *)
(* of the bundles it packages, so it is one step up to the first question  *)
(* (or to its return) and one step per answer.                             *)

MaxSkills == 2     \* items of the directory given to package_multiple_skills

\* package() from its start to its first question or to its end, as a value:
\* lines 76-144 (PackageRejects, PackageValidated and PackageUnvalidated).
package_start(p, b, F, out, zip) ==
    IF ~package_precondition(b)
    THEN [pk |-> [p EXCEPT !.pc = "done", !.result = "raised"], out_file |-> out,
          events |-> <<"raise">>]
    ELSE IF p.should_validate
    THEN validation_gate(p, validate(<<>>, b, F).issues, <<"validate">>, out, zip)
    ELSE resolve_output(p, <<>>, out, zip)

\* lines 119-122 and on (AnswerContinue), as a value
answer_continue(p, ev, out, zip, response) ==
    IF Lower(response) # "y"
    THEN [pk |-> [p EXCEPT !.pc = "done", !.result = "null", !.answers = Append(@, response)],
          out_file |-> out, events |-> Append(ev, "return_null")]
    ELSE resolve_output([p EXCEPT !.answers = Append(@, response)], ev, out, zip)

\* lines 136-140 and on (AnswerOverwrite), as a value
answer_overwrite(p, ev, out, zip, response) ==
    IF Lower(response) # "y"
    THEN [pk |-> [p EXCEPT !.pc = "done", !.result = "null", !.answers = Append(@, response)],
          out_file |-> out, events |-> Append(ev, "return_null")]
    ELSE create_and_return([p EXCEPT !.answers = Append(@, response)],
                           Append(ev, "unlink"), zip)

\* input() raises EOFError (no input left): the handler of lines 163-165
\* prints and re-raises.
prompt_fails(p, ev, out) ==
    [pk |-> [p EXCEPT !.pc = "done", !.result = "raised"], out_file |-> out,
     events |-> Append(ev, "raise")]

\* An item of skills_dir: its name (tokens), what is there (a bundle record:
\* path "dir" or "file", with or without SKILL.md), the file at its default
\* output path <item>/<name>.zip and what writing its archive comes to.
SkillItem(name, b, out, zip) == [name |-> name, bundle |-> b, out |-> out, zip |-> zip]

\* str(output_path) for item k
ZipPath(items, k) == items[k].name \o <<".zip">>

\* The bundle of TestPackageMultipleSkills.setUp: the three frontmatter keys,
\* a description of 7 words, a title and a body of 7 words, nothing else.
TestBundle ==
    [CleanBundle EXCEPT
        !.manifest = [GoodManifest EXCEPT !.desc = [str |-> TRUE, words |-> 7, you |-> FALSE],
                                          !.sections = {1}, !.tail_words = 7],
        !.testing_guide = FALSE]

\* What an item of skills_dir can be: a bundle without any issue (new output,
\* output present, archive write failing), the bundle of the test (warnings),
\* a bundle with a validation ERROR, a directory without SKILL.md, a file.
ItemKinds ==
    { [bundle |-> WithTree(CleanBundle), out |-> "absent", zip |-> "ok"],
      [bundle |-> WithTree(CleanBundle), out |-> "old", zip |-> "ok"],
      [bundle |-> WithTree(CleanBundle), out |-> "absent", zip |-> "write_fails"],
      [bundle |-> WithTree(TestBundle), out |-> "absent", zip |-> "ok"],
      [bundle |-> WithTree([CleanBundle EXCEPT !.manifest = [GoodManifest EXCEPT !.starts = FALSE]]),
       out |-> "absent", zip |-> "ok"],
      [bundle |-> WithTree([CleanBundle EXCEPT !.has_skill_md = FALSE]),
       out |-> "absent", zip |-> "ok"],
      [bundle |-> WithTree([CleanBundle EXCEPT !.path = "file", !.has_skill_md = FALSE]),
       out |-> "absent", zip |-> "ok"] }

ItemNames == << <<"skill-", "1">>, <<"other-", "2">>, <<"skill-", "3">>, <<"skill-", "4">> >>

\* No package() call is waiting for an answer.
NoRun == [pk |-> SkillPackager(TRUE, FALSE, TRUE), out_file |-> "absent", events |-> <<>>]

\* The arguments of package_multiple_skills and its local variables: items
\* is skills_dir.iterdir() in the order it yields, outs the files at the
\* output paths, folders skill_folders (indices into items), i the number of
\* folders done, attempts the items package() was called for, results what
\* each call came to, cur the package() call that waits for an answer.
BatchCall(dir, pattern, has_validator, kinds) ==
    [pc |-> "new", dir |-> dir, pattern |-> pattern, has_validator |-> has_validator,
     items |-> [k \in DOMAIN kinds |->
                   SkillItem(ItemNames[k], kinds[k].bundle, kinds[k].out, kinds[k].zip)],
     outs |-> [k \in DOMAIN kinds |-> kinds[k].out],
     folders |-> <<>>, i |-> 0, attempts |-> <<>>, results |-> <<>>, cur |-> NoRun,
     packaged_skills |-> <<>>, failed_skills |-> <<>>, returned |-> <<>>]

\* lines 336-340: the directories with SKILL.md whose name matches the pattern
skill_folders(items, pattern) ==
    LET is_skill(k) == /\ items[k].bundle.path = "dir"
                       /\ items[k].bundle.has_skill_md
                       /\ fnmatch(items[k].name, pattern)
    IN  SelectSeq([k \in DOMAIN items |-> k], is_skill)

RECURSIVE batch_loop(_)

RECURSIVE batch_collect(_, _)

\* batch_collect that ends the batch at the first bundle that raises.
batch_collect_aborts(st, r) ==
    LET k == st.folders[st.i + 1]
        s1 == [st EXCEPT !.outs[k] = r.out_file]
    IN  IF r.pk.pc # "done" THEN [s1 EXCEPT !.pc = r.pk.pc, !.cur = r]
        ELSE IF r.pk.result = "raised"
        THEN [s1 EXCEPT !.pc = "returned", !.cur = NoRun, !.results = Append(@, r.pk.result),
                        !.failed_skills = Append(@, st.items[k].name),
                        !.returned = st.packaged_skills]
        ELSE batch_loop([s1 EXCEPT
                !.i = @ + 1, !.cur = NoRun, !.results = Append(@, r.pk.result),
                !.packaged_skills = IF r.pk.result = "path"
                                    THEN Append(@, ZipPath(st.items, k)) ELSE @])

\* lines 355-360, and the loop from there: package() for the current folder
\* has come to r (a question, or its end)
batch_collect(st, r) ==
    LET k == st.folders[st.i + 1]
        s1 == [st EXCEPT !.outs[k] = r.out_file]
    IN  IF r.pk.pc # "done" THEN [s1 EXCEPT !.pc = r.pk.pc, !.cur = r]
        ELSE batch_loop([s1 EXCEPT
                !.i = @ + 1, !.cur = NoRun, !.results = Append(@, r.pk.result),
                !.packaged_skills = IF r.pk.result = "path"
                                    THEN Append(@, ZipPath(st.items, k)) ELSE @,
                !.failed_skills = IF r.pk.result = "raised"
                                  THEN Append(@, st.items[k].name) ELSE @])

\* lines 351-377: the loop from folder st.i + 1 on, up to the first question
\* or to the return
batch_loop(st) ==
    IF st.i = Len(st.folders)
    THEN [st EXCEPT !.pc = "returned", !.returned = st.packaged_skills]
    ELSE LET k == st.folders[st.i + 1]
         IN  batch_collect([st EXCEPT !.attempts = Append(@, k)],
                           package_start(SkillPackager(TRUE, FALSE, st.has_validator),
                                         st.items[k].bundle, {}, st.outs[k], st.items[k].zip))

\* package_multiple_skills(skills_dir, pattern), lines 329-377
BatchStart ==
    /\ batch.pc = "new"
    /\ batch' = IF batch.dir = "missing"
                THEN [batch EXCEPT !.pc = "returned", !.returned = <<>>]
                ELSE batch_loop([batch EXCEPT !.folders = skill_folders(batch.items, batch.pattern)])
    /\ UNCHANGED <<bundle, faults, issues, is_valid, groups, calls, pk, out_file, events,
                   archive, cli>>

\* An answer to the question of the package() call that waits, and the loop
\* from there.
BatchAnswer ==
    /\ batch.pc \in {"ask_continue", "ask_overwrite"}
    /\ \E response \in Answers :
         LET c == batch.cur
             zip == batch.items[batch.folders[batch.i + 1]].zip
         IN  batch' = batch_collect(batch,
                         IF batch.pc = "ask_continue"
                         THEN answer_continue(c.pk, c.events, c.out_file, zip, response)
                         ELSE answer_overwrite(c.pk, c.events, c.out_file, zip, response))
    /\ UNCHANGED <<bundle, faults, issues, is_valid, groups, calls, pk, out_file, events,
                   archive, cli>>

\* input() has nothing to read: package() raises EOFError, the loop goes on.
BatchPromptFails ==
    /\ batch.pc \in {"ask_continue", "ask_overwrite"}
    /\ batch' = batch_collect(batch, prompt_fails(batch.cur.pk, batch.cur.events,
                                                  batch.cur.out_file))
    /\ UNCHANGED <<bundle, faults, issues, is_valid, groups, calls, pk, out_file, events,
                   archive, cli>>

\* Ctrl-C at a question: the KeyboardInterrupt passes the handlers of lines
\* 163 and 358, package_multiple_skills does not return.
BatchInterrupted ==
    /\ batch.pc \in {"ask_continue", "ask_overwrite"}
    /\ batch' = [batch EXCEPT !.pc = "interrupted"]
    /\ UNCHANGED <<bundle, faults, issues, is_valid, groups, calls, pk, out_file, events,
                   archive, cli>>

InitBatch ==
    /\ bundle = WithTree(CleanBundle)
    /\ faults = {}
    /\ InitValidator
    /\ pk = SkillPackager(TRUE, FALSE, TRUE)
    /\ out_file = "absent"
    /\ events = <<>>
    /\ archive = <<>>
    /\ cli = NoCli
    /\ batch \in { BatchCall("dir", pattern, has_validator, kinds) :
                      pattern \in { <<"*">>, <<"skill-", "*">> },
                      has_validator \in BOOLEAN,
                      kinds \in SeqsUpTo(ItemKinds, MaxSkills) }
                 \cup { BatchCall("missing", <<"*">>, TRUE, <<>>) }

NextBatch == BatchStart \/ BatchAnswer \/ BatchPromptFails \/ BatchInterrupted

SpecBatch == InitBatch /\ [][NextBatch]_vars

\* validate() on bundles that differ in SKILL.md alone.
Descriptions ==
    { [str |-> FALSE, words |-> 0, you |-> FALSE],
      [str |-> TRUE, words |-> 9, you |-> FALSE],
      [str |-> TRUE, words |-> 12, you |-> FALSE],
      [str |-> TRUE, words |-> 12, you |-> TRUE],
      [str |-> TRUE, words |-> 101, you |-> FALSE] }

\* Frontmatter blocks: unopened, unclosed, unparsable, empty, a bare number,
\* and strings and mappings with any of the required keys.
Frontmatters ==
    { [GoodManifest EXCEPT !.starts = FALSE, !.keys = {}],
      [GoodManifest EXCEPT !.closed = FALSE, !.keys = {}],
      [GoodManifest EXCEPT !.yaml = "error", !.keys = {}],
      [GoodManifest EXCEPT !.yaml = "null", !.keys = {}, !.fm_newlines = 0],
      [GoodManifest EXCEPT !.yaml = "int", !.keys = {}, !.fm_newlines = 1] }
    \cup
    { [GoodManifest EXCEPT !.yaml = y, !.keys = ks, !.name = nm, !.desc = d,
                           !.fm_newlines = Cardinality(ks) + extra] :
        y \in {"str", "map"}, ks \in SUBSET Range(REQUIRED_FRONTMATTER_KEYS),
        nm \in {"slug", "nonslug", "nonstr"}, d \in Descriptions, extra \in 0..1 }

BodyLines ==
    { <<"load", "file">>, <<"You", "load">>, <<"you", "you">>,
      <<"load", "your", "youth">>, <<"YOUR", "you">>, <<"TODO:", "[x]">>,
      <<"Lorem", "ipsum">>, <<"FIXME:", "XXX:">> }

Manifests ==
    { [fm EXCEPT !.lines = ls] :
        fm \in Frontmatters, ls \in { <<>>, << <<"you", "you">>, <<"load", "file">> >> } }
    \cup
    { [fm EXCEPT !.lines = ls, !.sections = se, !.tail_words = tw] :
        fm \in { GoodManifest,
                 [GoodManifest EXCEPT !.keys = {"name"}, !.fm_newlines = 1],
                 [GoodManifest EXCEPT !.yaml = "null", !.keys = {}, !.fm_newlines = 0] },
        ls \in SeqsUpTo(BodyLines, MaxLines),
        se \in {{}, 1..NumSectionPatterns}, tw \in {0, 60, 5001} }

InitManifest ==
    /\ bundle \in { WithTree([CleanBundle EXCEPT !.manifest = m]) : m \in Manifests }
    /\ faults \in {{}, {"read_skill_md"}}
    /\ InitValidator
    /\ pk = SkillPackager(TRUE, FALSE, TRUE)
    /\ out_file = "absent"
    /\ events = <<>>
    /\ archive = <<>>
    /\ cli = NoCli
    /\ batch = NoBatch

NextManifest == Validate

SpecManifest == InitManifest /\ [][NextManifest]_vars

\* validate() on SKILL.md files given as text.  A text is the lines of the
\* frontmatter block (those between the two delimiter lines) and the first
\* lines of the body; a line is its tokens, "---" being three dashes.
MaxFmLines == 2    \* lines of the frontmatter block

NL == "\n"

Delimiter == <<"---", NL>>

\* The frontmatter lines: the required keys (a description that ends in
\* dashes) and a comment.
FmLineKinds ==
    { <<"name:", "v">>, <<"description:", "v", "---">>, <<"license:", "v">>,
      <<"#", "you">> }

\* The body lines: neutral, with a pronoun, with two markers, a rule of dashes.
TextBodyLines ==
    { <<"load", "file">>, <<"You", "load">>, <<"TODO:", "[x]">>, <<"---">> }

\* The lines of the file: delimiter, frontmatter, delimiter, body.
FileLines(t) == << <<"---">> >> \o t.fm \o << <<"---">> >> \o t.body

\* What read_text returns (up to the modelled body lines): every line
\* followed by a newline.
Content(t) == Flatten([i \in DOMAIN FileLines(t) |-> Append(FileLines(t)[i], NL)])

\* content.startswith(prefix)
startswith(content, prefix) ==
    Len(content) >= Len(prefix) /\ SubSeq(content, 1, Len(prefix)) = prefix

\* content.find(sep) + 1: where sep first occurs in content, 0 if nowhere
find(content, sep) ==
    LET hits == { i \in 1..(Len(content) - Len(sep) + 1) :
                    SubSeq(content, i, i + Len(sep) - 1) = sep }
    IN  IF hits = {} THEN 0 ELSE CHOOSE i \in hits : \A j \in hits : i <= j

\* content.split(sep, maxsplit)
RECURSIVE split(_, _, _)
split(content, sep, maxsplit) ==
    LET i == find(content, sep)
    IN  IF maxsplit = 0 \/ i = 0 THEN << content >>
        ELSE << SubSeq(content, 1, i - 1) >>
             \o split(SubSeq(content, i + Len(sep), Len(content)), sep, maxsplit - 1)

\* text.count(tok)
count(text, tok) == Cardinality({ i \in DOMAIN text : text[i] = tok })

\* The keys of the mapping yaml.safe_load makes of frontmatter_text: the
\* "key: value" lines (a comment is no key).
KeysOf(frontmatter_text) ==
    LET ls == Range(split(frontmatter_text, <<NL>>, Len(frontmatter_text)))
    IN  { k \in Range(REQUIRED_FRONTMATTER_KEYS) :
            \E l \in ls : Len(l) >= 2 /\ l[2] = "v"
                          /\ l[1] = (CASE k = "name" -> "name:"
                                       [] k = "description" -> "description:"
                                       [] k = "license" -> "license:") }

\* lines 147-171 and 260, 268: what _validate_skill_md makes of the text (the
\* values of the keys, the headings and the rest of the body are those of
\* GoodManifest).  The modelled body lines are followed by the rest of the
\* body, so the last newline ends a line and starts no empty one.
ManifestOfText(t) ==
    LET content == Content(t)
        parts == split(content, Delimiter, 2)
        closed == Len(parts) = 3
        frontmatter_text == IF closed THEN parts[2] ELSE <<>>
        body == IF closed THEN parts[3] ELSE <<>>
        lines == split(body, <<NL>>, Len(body))
    IN  [text |-> t] @@
        [GoodManifest EXCEPT
            !.starts = startswith(content, Delimiter),
            !.closed = closed,
            !.keys = KeysOf(frontmatter_text),
            !.yaml = IF KeysOf(frontmatter_text) = {} THEN "null" ELSE "map",
            !.fm_newlines = count(frontmatter_text, NL),
            !.lines = SubSeq(lines, 1, Len(lines) - 1)]

Texts ==
    { [fm |-> f, body |-> b] :
        f \in SeqsUpTo(FmLineKinds, MaxFmLines), b \in SeqsUpTo(TextBodyLines, MaxLines) }

InitText ==
    /\ bundle \in { WithTree([CleanBundle EXCEPT !.manifest = ManifestOfText(t)]) : t \in Texts }
    /\ faults = {}
    /\ InitValidator
    /\ pk = SkillPackager(TRUE, FALSE, TRUE)
    /\ out_file = "absent"
    /\ events = <<>>
    /\ archive = <<>>
    /\ cli = NoCli
    /\ batch = NoBatch

NextText == Validate

SpecText == InitText /\ [][NextText]_vars

\* package() on bundles that differ in the files the packager walks.
\* expected_root_items of validate_skill.py lines 319-321, less the names
\* that bundle fields stand for.
ExpectedRootItems == { <<"README", ".md">>, <<".", "gitignore">> }

\* A script file as the validator reads it: a directory named *.py cannot be
\* read, ast.parse rejects the bytes of BrokenScriptData (at line 2), any
\* other file of the catalogue is a clean script.
ScriptFact(n) ==
    IF n.data \in BrokenScriptData
    THEN [readable |-> n.kind = "file" /\ n.readable, syntax_ok |-> FALSE, lineno |-> 2,
          docstring |-> FALSE, try_except |-> FALSE, main_guard |-> FALSE]
    ELSE [readable |-> n.kind = "file" /\ n.readable, syntax_ok |-> TRUE, lineno |-> 0,
          docstring |-> TRUE, try_except |-> TRUE, main_guard |-> TRUE]

RECURSIVE SetToSeq(_)
SetToSeq(S) ==
    IF S = {} THEN <<>>
    ELSE LET x == CHOOSE x \in S : TRUE IN <<x>> \o SetToSeq(S \ {x})

\* The bundle with the files of `tree` (and TESTING_GUIDE/notes.md), a clean
\* SKILL.md of kind smk, and lt, l at LICENSE.txt and LICENSE: the facts the
\* validator reads are those of these files.
BundleOf(tree, smk, lt, l) ==
    LET status(d) == IF \E n \in tree : n.path[1] = <<d>> THEN "dir" ELSE "absent"
        b0 == [CleanBundle EXCEPT !.tree = tree \cup {TestingGuideNode},
                                  !.scripts = status("scripts"),
                                  !.references = status("references"),
                                  !.assets = status("assets"),
                                  !.skill_md_kind = smk,
                                  !.license_txt = lt, !.license = l]
        tops == { n.path[1] : n \in { x \in tree : x.path[1] \notin
                                        {<<"scripts">>, <<"references">>, <<"assets">>} } }
    IN  [b0 EXCEPT
           !.py_files = [i \in 1..Cardinality(glob(b0, "scripts", <<"*", ".py">>)) |->
                           ScriptFact(SetToSeq(glob(b0, "scripts", <<"*", ".py">>))[i])],
           !.ref_docs = glob(b0, "references", <<"*", ".md">>)
                          \cup glob(b0, "references", <<"*", ".txt">>) # {},
           !.root_extra = Cardinality({ t \in tops : Head(t) # "." /\ t \notin ExpectedRootItems })]

MaxFiles == 2      \* files of the catalogue in one bundle

RootKinds == {"absent", "file", "dir"}

\* Bundles with any files of the catalogue.
TreeBundles ==
    { BundleOf(tree, "file", "absent", "absent") :
        tree \in { t \in SUBSET Catalogue : Cardinality(t) <= MaxFiles } }

\* Bundles that differ in what is at SKILL.md, LICENSE.txt and LICENSE.
RootBundles ==
    { BundleOf(tree, smk, lt, l) :
        tree \in { {}, { n \in Catalogue : n.path = << <<"scripts">>, <<"a", ".py">> >> } },
        smk \in {"file", "dir"}, lt \in RootKinds, l \in RootKinds }

\* Every bundle is packaged without validation into a new file; the bundles
\* with at most one file of the catalogue also with validation, with force,
\* and over an old file.  A SKILL.md that is a directory cannot be read
\* (read_text raises).
InitArchive ==
    /\ \/ /\ bundle \in TreeBundles \cup RootBundles
          /\ pk = SkillPackager(FALSE, FALSE, TRUE)
          /\ out_file = "absent"
       \/ /\ bundle \in { x \in TreeBundles \cup RootBundles :
                             Cardinality(x.tree \ {TestingGuideNode}) <= 1 }
          /\ pk \in { SkillPackager(FALSE, FALSE, TRUE), SkillPackager(TRUE, TRUE, TRUE),
                      SkillPackager(TRUE, FALSE, TRUE) }
          /\ out_file \in {"absent", "old"}
    /\ faults = IF bundle.skill_md_kind = "dir" THEN {"read_skill_md"} ELSE {}
    /\ InitValidator
    /\ events = <<>>
    /\ archive = <<>>
    /\ cli = NoCli
    /\ batch = NoBatch

NextArchive ==
    \/ PackageUnvalidated
    \/ PackageValidated
    \/ AnswerContinue
    \/ AnswerOverwrite

SpecArchive == InitArchive /\ [][NextArchive]_vars

----------------------------------------------------------------------------
(* Properties of SkillValidator.validate *)

\* validate() has returned (on the instance under observation).
Validated == calls # <<>>

\* The preconditions of validate() hold of the bundle.
PreconditionsPass == bundle.path = "dir" /\ bundle.has_skill_md

\* The rule group an issue comes from, by its message; 0 for the issues of
\* validate() itself (preconditions, unexpected error).
RuleGroup(issue) ==
    CASE issue.message \in
            {"Error reading SKILL.md", "SKILL.md must start with YAML frontmatter",
             "YAML frontmatter not properly closed", "YAML frontmatter parsing error",
             "YAML frontmatter is empty", "Missing required frontmatter key",
             "'name' must be a non-empty string",
             "Skill name should use lowercase and hyphens only",
             "'description' must be a non-empty string", "Description is very short",
             "Description is very long", "Description contains second-person pronouns",
             "Missing recommended section", "Found forbidden pattern",
             "SKILL.md body is very short", "SKILL.md body is very long"} -> 1
      [] issue.message \in
            {"Skill folder name should use lowercase and hyphens only",
             "Error validating file structure", "Unexpected item in skill root",
             "'scripts' exists but is not a directory",
             "scripts/ folder exists but contains no .py files",
             "'references' exists but is not a directory",
             "references/ folder exists but contains no documentation files",
             "'assets' exists but is not a directory",
             "No TESTING_GUIDE/ folder found"} -> 2
      [] issue.message \in
            {"Error validating Python scripts", "Error reading script",
             "Python syntax error", "Missing module docstring",
             "No error handling (try/except) found", "No __main__ guard"} -> 3
      [] issue.message \in
            {"Error checking content quality", "Placeholder text found"} -> 4
      [] issue.message \in {"Error checking for secrets", "Secret detected"} -> 5
      [] OTHER -> 0

\* Number of issues with the given message and severity.
CountOf(iss, msg, sev) ==
    Cardinality({i \in DOMAIN iss : iss[i].message = msg /\ iss[i].severity = sev})

\* C1: whatever way validate() returns (precondition failure, normal run,
\* unexpected exception), is_valid is true exactly when the returned issue
\* list holds no issue of severity ERROR.
C1_ValidIffNoError ==
    Validated => (is_valid <=> Count(issues, "ERROR") = 0)

\* C1 witness: validate() returned through its handler of unexpected
\* exceptions after three groups had appended issues.
C1_Witness ==
    /\ Validated /\ ~is_valid /\ groups = <<1, 2, 3>>
    /\ Len(issues) > 1
    /\ issues[Len(issues)].message = "Unexpected error during validation"

\* C2: when a precondition of validate() fails (path missing, path not a
\* directory, no SKILL.md), validate() returns is_valid = false with exactly
\* one issue, an ERROR (naming SKILL.md when the manifest is missing), and
\* no rule group is run.
C2_PreconditionFailure ==
    (Validated /\ ~PreconditionsPass /\ "stat_path" \notin faults) =>
        /\ is_valid = FALSE
        /\ Len(issues) = 1
        /\ issues[1].severity = "ERROR"
        /\ (bundle.path = "dir" => issues[1].message = "SKILL.md file not found")
        /\ groups = <<>>

\* C2 witness: validate() has returned on a directory without SKILL.md.
C2_Witness ==
    /\ Validated /\ bundle.path = "dir" /\ ~bundle.has_skill_md
    /\ "stat_path" \notin faults
    /\ Len(issues) = 1

\* C3: once the preconditions pass, all five rule groups are run in every
\* validate() call, whatever fails inside a group.
C3_AllGroupsRun ==
    (Validated /\ PreconditionsPass /\ "stat_path" \notin faults) =>
        groups = <<1, 2, 3, 4, 5>>

\* A rule group failed internally: one of its I/O calls raised (for group 1
\* also: the frontmatter is a value the key tests raise TypeError on).
GroupFailed(g) ==
    /\ g \in Range(groups)
    /\ CASE g = 1 -> \/ "read_skill_md" \in faults
                     \/ /\ bundle.manifest.starts /\ bundle.manifest.closed
                        /\ \/ bundle.manifest.yaml = "int"
                           \/ /\ bundle.manifest.yaml = "str"
                              /\ bundle.manifest.keys \cap {"name", "description"} # {}
         [] g = 2 -> "iterdir" \in faults
         [] g = 3 -> \/ "stat_scripts" \in faults
                     \/ "glob_scripts" \in faults /\ bundle.scripts # "absent"
         [] g = 4 -> "rglob_quality" \in faults
         [] g = 5 -> "rglob_secrets" \in faults

\* The message of the issue a rule group's own handler makes of a failure.
FailureMessage(g) ==
    CASE g = 1 -> "Error reading SKILL.md"
      [] g = 2 -> "Error validating file structure"
      [] g = 3 -> "Error validating Python scripts"
      [] g = 4 -> "Error checking content quality"
      [] g = 5 -> "Error checking for secrets"

\* C4 as claimed: for each of the five rule groups, an internal failure of
\* the group becomes exactly one ERROR issue naming the group, and validate()
\* returns is_valid = false.
C4_FailureIsError ==
    Validated =>
        \A g \in 1..5 :
            GroupFailed(g) =>
                /\ CountOf(issues, FailureMessage(g), "ERROR") = 1
                /\ is_valid = FALSE

\* C4 amended: a failure inside manifest structure, file structure or script
\* content becomes exactly one ERROR issue and is_valid = false; the issue names
\* the group, except that a failure of the scripts-directory existence test is
\* reported by validate() as "Unexpected error during validation".  A failure
\* inside content quality or secret scanning becomes exactly one WARNING issue
\* naming the group and no ERROR issue.
C4_FailureIsErrorOrWarning ==
    Validated =>
        /\ \A g \in {1, 2} :
              GroupFailed(g) =>
                 /\ CountOf(issues, FailureMessage(g), "ERROR") = 1
                 /\ is_valid = FALSE
        /\ GroupFailed(3) =>
              /\ is_valid = FALSE
              /\ IF "stat_scripts" \in faults
                 THEN /\ CountOf(issues, "Unexpected error during validation", "ERROR") = 1
                      /\ CountOf(issues, FailureMessage(3), "ERROR") = 0
                 ELSE CountOf(issues, FailureMessage(3), "ERROR") = 1
        /\ \A g \in {4, 5} :
              GroupFailed(g) =>
                 /\ CountOf(issues, FailureMessage(g), "WARNING") = 1
                 /\ CountOf(issues, FailureMessage(g), "ERROR") = 0
                 /\ \A i \in DOMAIN issues :
                       RuleGroup(issues[i]) = g => issues[i].message = FailureMessage(g)

\* C4 witness: secret scanning failed internally and validate() returned
\* is_valid = true.
C4_Witness ==
    /\ Validated /\ GroupFailed(5) /\ is_valid = TRUE
    /\ CountOf(issues, FailureMessage(5), "WARNING") = 1

\* C5: the issue list validate() returns is in rule-execution order: every
\* issue of rule group i precedes every issue of rule group j for i < j.
C5_RuleOrder ==
    Validated =>
        \A i, j \in DOMAIN issues :
            (/\ i < j
             /\ RuleGroup(issues[i]) \in 1..5
             /\ RuleGroup(issues[j]) \in 1..5) =>
                RuleGroup(issues[i]) <= RuleGroup(issues[j])

\* C5 witness: a returned list with issues of all five groups in which an
\* INFO issue precedes a WARNING and a WARNING precedes an ERROR (the list is
\* not sorted by severity).
C5_Witness ==
    /\ Validated
    /\ {RuleGroup(issues[i]) : i \in DOMAIN issues} = 1..5
    /\ \E i, j, k \in DOMAIN issues :
          /\ i < j /\ j < k
          /\ issues[i].severity = "INFO"
          /\ issues[j].severity = "WARNING"
          /\ issues[k].severity = "ERROR"

\* C6: a second validate() call on the same instance, bundle unchanged,
\* returns the issue sequence the first call returned (nothing of the first
\* call is carried into the second result) and the same is_valid.
C6_Idempotent ==
    Len(calls) >= 2 => issues = SubSeq(issues, 1, calls[2])

----------------------------------------------------------------------------
(* Properties of the manifest-structure rule (_validate_skill_md) *)

\* SKILL.md was read and has an opened and closed frontmatter block.
FrontmatterClosed ==
    /\ Validated /\ PreconditionsPass /\ faults = {}
    /\ bundle.manifest.starts /\ bundle.manifest.closed

\* The required keys absent from the frontmatter block.
AbsentKeys == Range(REQUIRED_FRONTMATTER_KEYS) \ bundle.manifest.keys

\* The keys named by the missing-key ERROR issues.
MissingKeyErrors ==
    {i \in DOMAIN issues : /\ issues[i].message = "Missing required frontmatter key"
                           /\ issues[i].severity = "ERROR"}

\* C7 as claimed: a closed frontmatter block in which k >= 1 of the required
\* keys are absent, the empty block included, gets exactly k missing-key
\* ERROR issues.
C7_OnePerMissingKey ==
    (/\ FrontmatterClosed
     /\ bundle.manifest.yaml \in {"map", "null"}
     /\ AbsentKeys # {}) =>
        Cardinality(MissingKeyErrors) = Cardinality(AbsentKeys)

\* C7 amended: a frontmatter block that parses to a mapping in which k of the
\* required keys are absent gets exactly k missing-key ERROR issues, one per
\* absent key, whatever the rest of the file; a block that parses to nothing
\* (the empty block) gets one "YAML frontmatter is empty" ERROR and no
\* missing-key issue.
C7_OnePerMissingKeyOfMapping ==
    /\ (FrontmatterClosed /\ bundle.manifest.yaml = "map") =>
          /\ Cardinality(MissingKeyErrors) = Cardinality(AbsentKeys)
          /\ {issues[i].subject : i \in MissingKeyErrors} = AbsentKeys
    /\ (FrontmatterClosed /\ bundle.manifest.yaml = "null") =>
          /\ MissingKeyErrors = {}
          /\ CountOf(issues, "YAML frontmatter is empty", "ERROR") = 1

\* C7 witness: a mapping without description and license and with a body
\* that raises other issues got its two missing-key ERROR issues.
C7_Witness ==
    /\ FrontmatterClosed /\ bundle.manifest.yaml = "map"
    /\ AbsentKeys = {"description", "license"}
    /\ bundle.manifest.lines # <<>>
    /\ Cardinality(MissingKeyErrors) = 2

\* Occurrences of the words you and your (any case) in the modelled body lines.
PronounOccurrences ==
    LET ls == bundle.manifest.lines
    IN  Cardinality(UNION { { <<n, i>> : i \in {k \in DOMAIN ls[n] :
                                                  Fold(ls[n][k]) \in {"you", "your"}} } :
                            n \in DOMAIN ls })

\* Pairs of a body line and a pronoun pattern found in it.
PronounLines ==
    LET ls == bundle.manifest.lines
    IN  Cardinality({ <<n, w>> \in (DOMAIN ls) \X {"you", "your"} :
                        \E i \in DOMAIN ls[n] : Fold(ls[n][i]) = w })

\* The second-person ERROR issues of the body scan.
SecondPersonErrors ==
    Cardinality({i \in DOMAIN issues :
                    /\ issues[i].message = "Found forbidden pattern"
                    /\ issues[i].severity = "ERROR"
                    /\ NameMentionsYou(issues[i].subject)})

\* C8 as claimed: the second-person ERROR issues are at least as many as the
\* occurrences of you/your in the body, several on one line included.
C8_OnePerOccurrence ==
    (FrontmatterClosed /\ bundle.manifest.yaml = "map") =>
        SecondPersonErrors >= PronounOccurrences

\* C8 amended: for a SKILL.md whose frontmatter parses to a mapping, the body
\* scan emits exactly one second-person ERROR issue per body line and pronoun
\* (you, your) found in that line, however often the line holds it: at least
\* one per line with an occurrence, not one per occurrence.
C8_OnePerLineAndPronoun ==
    (FrontmatterClosed /\ bundle.manifest.yaml = "map") =>
        SecondPersonErrors = PronounLines

\* C8 witness: a body line holds the same pronoun twice and the scan has
\* reported fewer issues than there are occurrences.
C8_Witness ==
    /\ FrontmatterClosed /\ bundle.manifest.yaml = "map"
    /\ \E n \in DOMAIN bundle.manifest.lines :
          bundle.manifest.lines[n] = <<"you", "you">>
    /\ SecondPersonErrors > 0
    /\ SecondPersonErrors < PronounOccurrences

----------------------------------------------------------------------------
(* Properties of SkillPackager.package *)

\* package() ran the validator.
GateReached == events # <<>> /\ events[1] = "validate"

\* C9: with validation enabled and force = false, package() on a bundle for
\* which the validator reports an ERROR ends by raising: no question asked,
\* nothing deleted at the output path, no archive written.
C9_ErrorsAbort ==
    (/\ GateReached /\ pk.should_validate /\ ~pk.force
     /\ Count(issues, "ERROR") > 0) =>
        /\ pk.pc = "done" /\ pk.result = "raised"
        /\ events = <<"validate", "raise">>
        /\ out_file \in {"absent", "old"}

\* C9 witness: package() has raised on validation errors and the file that
\* was at the output path is still there.
C9_Witness ==
    /\ GateReached /\ pk.should_validate /\ ~pk.force
    /\ Count(issues, "ERROR") > 0 /\ Count(issues, "WARNING") > 0
    /\ pk.result = "raised" /\ out_file = "old"

\* C10: with force = true and validation enabled, package() never aborts on
\* validator issues and never asks whether to continue: control reaches the
\* output-path resolution.
C10_ForceProceeds ==
    (GateReached /\ pk.should_validate /\ pk.force) =>
        /\ \A i \in DOMAIN events : events[i] # "ask_continue"
        /\ \E i \in DOMAIN events :
              /\ events[i] = "resolve_output"
              /\ \A j \in 1..(i - 1) : events[j] \in {"validate", "force_warning"}

\* C10 witness: a forced package() of a bundle with ERROR and WARNING issues
\* has resolved its output path.
C10_Witness ==
    /\ GateReached /\ pk.should_validate /\ pk.force
    /\ Count(issues, "ERROR") > 0 /\ Count(issues, "WARNING") > 0
    /\ SubSeq(events, 1, 3) = <<"validate", "force_warning", "resolve_output">>

\* Index of the first occurrence of e in events, 0 if there is none.
EventIndex(e) ==
    IF \E i \in DOMAIN events : events[i] = e
    THEN CHOOSE i \in DOMAIN events :
            events[i] = e /\ \A j \in 1..(i - 1) : events[j] # e
    ELSE 0

Happened(e) == EventIndex(e) > 0

\* C11 as stated: with validation enabled, a validator result without ERROR
\* but with a WARNING or an INFO makes package() ask "Continue packaging?"
\* before it resolves the output path or writes anything.
C11_AsksOnWarningOrInfo ==
    (/\ GateReached /\ pk.should_validate
     /\ Count(issues, "ERROR") = 0
     /\ Count(issues, "WARNING") + Count(issues, "INFO") > 0) =>
        /\ Len(events) >= 2 /\ events[2] = "ask_continue"

\* C11 as the code has it: without ERROR, package() asks "Continue
\* packaging?" exactly when there is a WARNING and force is off, and then it
\* asks directly after validation, before the output path is resolved,
\* anything is deleted or the archive is written; with INFO issues only, or
\* with force on, it goes on to the output path without asking.
C11_AsksOnWarningUnlessForced ==
    (GateReached /\ pk.should_validate /\ Count(issues, "ERROR") = 0) =>
        IF Count(issues, "WARNING") > 0 /\ ~pk.force
        THEN /\ Len(events) >= 2 /\ events[2] = "ask_continue"
             /\ \A e \in {"resolve_output", "unlink", "create_zip"} :
                   Happened(e) => EventIndex(e) > 2
        ELSE /\ ~Happened("ask_continue")
             /\ Len(events) >= 2 /\ events[2] = "resolve_output"

\* C11 witness: package() stands at the "Continue packaging?" question for a
\* bundle with a WARNING and an INFO and no ERROR; nothing was resolved yet.
C11_Witness ==
    /\ GateReached /\ pk.should_validate /\ ~pk.force
    /\ Count(issues, "ERROR") = 0
    /\ Count(issues, "WARNING") > 0 /\ Count(issues, "INFO") > 0
    /\ pk.pc = "ask_continue" /\ events = <<"validate", "ask_continue">>

\* The last response read by input().
LastAnswer == pk.answers[Len(pk.answers)]

\* package() has not touched the output path: nothing deleted, nothing
\* written, the file that was there is still there.
OutputUntouched ==
    /\ ~Happened("unlink") /\ ~Happened("create_zip")
    /\ out_file \in {"absent", "old"}
    /\ Happened("ask_overwrite") => out_file = "old"

\* C12 as stated: any answer other than 'y' to either question makes
\* package() return null without raising, with nothing written or deleted.
C12_NotLowercaseYDeclines ==
    (pk.answers # <<>> /\ LastAnswer # "y") =>
        pk.pc = "done" /\ pk.result = "null" /\ OutputUntouched

\* C12 as the code has it: any answer other than 'y' or 'Y' to either question
\* makes package() return null without raising; no archive is written, a file
\* already at the output path stays, and the step that returns null changes
\* neither the bundle nor the output path.
C12_DeclineIsNoOp ==
    /\ [] ((pk.answers # <<>> /\ LastAnswer \notin {"y", "Y"}) =>
              /\ pk.pc = "done" /\ pk.result = "null" /\ OutputUntouched
              /\ events[Len(events)] = "return_null"
              /\ ~Happened("raise"))
    /\ [][pk'.result = "null" => bundle' = bundle /\ out_file' = out_file]_vars

\* C12 witness: the overwrite question was answered "n" after the warnings
\* question was answered "y"; package() returned null, the old file is there.
C12_Witness ==
    /\ pk.answers = <<"y", "n">> /\ pk.result = "null"
    /\ Happened("ask_continue") /\ Happened("ask_overwrite")
    /\ out_file = "old"

\* C13 as stated: a file at the output path is deleted only after the answer
\* 'y' to the overwrite question, and before the archive is opened.
C13_UnlinkOnlyAfterLowercaseY ==
    Happened("unlink") =>
        /\ Happened("ask_overwrite") /\ EventIndex("ask_overwrite") < EventIndex("unlink")
        /\ pk.answers # <<>> /\ LastAnswer = "y"
        /\ Happened("create_zip") /\ EventIndex("unlink") < EventIndex("create_zip")

\* C13 as the code has it: a file at the output path is deleted only after
\* the overwrite question was asked and answered 'y' or 'Y'; the deletion comes
\* before the archive is opened, and the archive is never opened over a file
\* that is still there.  This holds for every validate/force combination.
C13_UnlinkAfterYesBeforeZip ==
    /\ Happened("unlink") =>
          /\ Happened("ask_overwrite")
          /\ EventIndex("unlink") = EventIndex("ask_overwrite") + 1
          /\ pk.answers # <<>> /\ LastAnswer \in {"y", "Y"}
          /\ Happened("create_zip")
          /\ EventIndex("create_zip") = EventIndex("unlink") + 1
    /\ (Happened("ask_overwrite") /\ Happened("create_zip")) => Happened("unlink")
    /\ (Happened("create_zip") /\ ~Happened("ask_overwrite")) => out_file # "old"

\* C13 witness: validation off, force on; the old file was deleted after a
\* "y" and the new archive written.
C13_Witness ==
    /\ ~pk.should_validate /\ pk.force
    /\ pk.answers = <<"y">>
    /\ events = <<"resolve_output", "ask_overwrite", "unlink", "create_zip", "return_path">>
    /\ out_file = "new"

\* C14: package() on a path that does not exist, is not a directory or has no
\* SKILL.md raises at once, whatever validate and force are: no validation,
\* no question, and no file written or deleted at the output path.
C14_PreconditionRaises ==
    (pk.pc # "new" /\ ~(bundle.path = "dir" /\ bundle.has_skill_md)) =>
        /\ pk.pc = "done" /\ pk.result = "raised"
        /\ events = <<"raise">>
        /\ pk.answers = <<>>
        /\ OutputUntouched

\* C14 witness: package() with validate = false and force = true has raised on
\* a directory without SKILL.md.
C14_Witness ==
    /\ bundle.path = "dir" /\ ~bundle.has_skill_md
    /\ ~pk.should_validate /\ pk.force
    /\ pk.result = "raised" /\ events = <<"raise">>

----------------------------------------------------------------------------
(* Properties of the archive written by SkillPackager.package *)

\* package() has returned the path of the archive it wrote.
Packaged == pk.pc = "done" /\ pk.result = "path"

EntryNames == { archive[i].name : i \in DOMAIN archive }

EntriesNamed(name) == { i \in DOMAIN archive : archive[i].name = name }

ContentDirs == { <<"scripts">>, <<"references">>, <<"assets">> }

\* The regular files of the bundle below scripts/, references/ and assets/.
ContentFiles ==
    { n \in bundle.tree : n.kind = "file" /\ Len(n.path) >= 2 /\ n.path[1] \in ContentDirs }

\* C15 as stated: every archive that package() wrote has exactly one entry
\* named SKILL.md, written first, and exactly one entry named manifest.json,
\* written last.
C15_SkillMdFirstManifestLast ==
    Packaged =>
        /\ Cardinality(EntriesNamed(<<"SKILL", ".md">>)) = 1
        /\ Cardinality(EntriesNamed(<<"manifest", ".json">>)) = 1
        /\ archive[1].name = <<"SKILL", ".md">>
        /\ archive[Len(archive)].name = <<"manifest", ".json">>

\* The token at which a component of an entry name starts.
StartsComponent(name, i) == i = 1 \/ name[i - 1] = "/"

\* An entry name that lies inside a directory called dir.
InsideDir(name, dir) ==
    \E i \in 1..(Len(name) - 1) :
        StartsComponent(name, i) /\ name[i] = dir /\ name[i + 1] = "/"

\* An entry name with a component that starts with a dot.
HasDotComponent(name) ==
    \E i \in DOMAIN name : StartsComponent(name, i) /\ name[i] = "."

\* C16: no entry of an archive that package() wrote lies inside a
\* TESTING_GUIDE or __pycache__ directory, is a dotfile or lies inside a
\* dot-directory, or ends in .pyc, .pyo, .pyd or .zip, at whatever depth.
C16_NoExcludedEntry ==
    Packaged =>
        \A i \in DOMAIN archive :
            LET name == archive[i].name
            IN  /\ ~InsideDir(name, "TESTING_GUIDE")
                /\ ~InsideDir(name, "__pycache__")
                /\ ~HasDotComponent(name)
                /\ name[Len(name)] \notin {".pyc", ".pyo", ".pyd", ".zip"}

\* C16 witness: a bundle with a file in a nested TESTING_GUIDE directory and
\* a file in a nested .git directory was packaged, into SKILL.md and
\* manifest.json alone.
C16_Witness ==
    /\ Packaged
    /\ \E n \in bundle.tree : InsideDir(PathStr(n.path), "TESTING_GUIDE") /\ Len(n.path) = 4
    /\ \E n \in bundle.tree : HasDotComponent(PathStr(n.path)) /\ Len(n.path) = 4
    /\ Len(archive) = 2

\* C17 as stated: every Python file directly in scripts/ has the entry
\* scripts/<filename> in the archive that package() wrote.
C17_EveryTopLevelScriptPackaged ==
    Packaged =>
        \A n \in ContentFiles :
            (/\ n.path[1] = <<"scripts">> /\ Len(n.path) = 2
             /\ n.path[2][Len(n.path[2])] = ".py")
            => PathStr(n.path) \in EntryNames

\* C18: every regular file at any depth below scripts/, references/ or
\* assets/ that passes the exclusion filter has exactly one entry in the
\* archive that package() wrote, named by its path relative to the bundle
\* root and holding its bytes.
C18_IncludedFilesPackagedOnce ==
    Packaged =>
        \A n \in ContentFiles :
            should_include(n.path) =>
                /\ Cardinality(EntriesNamed(PathStr(n.path))) = 1
                /\ \A i \in EntriesNamed(PathStr(n.path)) : archive[i].data = n.data

\* C18 witness: a bundle with a file three directories deep in assets/ and a
\* file in scripts/ was packaged with an entry for each.
C18_Witness ==
    /\ Packaged
    /\ \E n \in ContentFiles :
          /\ Len(n.path) = 4 /\ n.path[1] = <<"assets">>
          /\ PathStr(n.path) \in EntryNames
    /\ \E n \in ContentFiles :
          /\ n.path[1] = <<"scripts">> /\ PathStr(n.path) \in EntryNames
    /\ Len(archive) = 4

\* C19 as stated: every entry of an archive that package() wrote is SKILL.md,
\* manifest.json, one license file (LICENSE.txt or LICENSE) or a path below
\* scripts/, references/ or assets/.
C19_OnlyKnownEntries ==
    Packaged =>
        /\ \A i \in DOMAIN archive :
              \/ archive[i].name \in { <<"SKILL", ".md">>, <<"manifest", ".json">>,
                                       <<"LICENSE", ".txt">>, <<"LICENSE">> }
              \/ /\ Len(archive[i].name) >= 3
                 /\ <<archive[i].name[1]>> \in ContentDirs
                 /\ archive[i].name[2] = "/"
        /\ Cardinality(EntriesNamed(<<"LICENSE", ".txt">>) \cup EntriesNamed(<<"LICENSE">>)) <= 1

\* The 'files' mapping of the manifest.json entry.
ManifestFiles == archive[Len(archive)].files

\* C20 as stated: every path under files.scripts of manifest.json is the name
\* of an entry of the archive, and the recorded checksum is the checksum of
\* that entry's bytes.
C20_ScriptChecksumsMatchEntries ==
    Packaged =>
        \A r \in ManifestFiles :
            r.group = "scripts" =>
                \E i \in DOMAIN archive :
                    archive[i].name = r.path /\ r.checksum = Sha256(archive[i].data)

----------------------------------------------------------------------------
(* Properties of the frontmatter value checks *)

\* The frontmatter is a mapping with a 'name' key.
HasName ==
    /\ FrontmatterClosed /\ bundle.manifest.yaml = "map"
    /\ "name" \in bundle.manifest.keys

\* The bundle has no defect other than the value of 'name'.
OnlyNameDefect ==
    bundle = WithTree([CleanBundle EXCEPT
                          !.manifest = [GoodManifest EXCEPT !.name = bundle.manifest.name]])

NameWarnings ==
    CountOf(issues, "Skill name should use lowercase and hyphens only", "WARNING")

NameErrors == CountOf(issues, "'name' must be a non-empty string", "ERROR")

\* C26 as stated: a 'name' that is off the slug pattern, the empty and the
\* non-string value included, gets a WARNING and never an ERROR, and a bundle
\* with no other defect is reported valid.
C26_BadNameOnlyWarns ==
    (HasName /\ bundle.manifest.name # "slug") =>
        /\ NameWarnings = 1
        /\ NameErrors = 0
        /\ OnlyNameDefect => is_valid

\* C26 as the code has it: a non-empty string off the slug pattern gets one
\* WARNING and no ERROR, and a bundle with no other defect is reported valid;
\* an empty or non-string 'name' gets one ERROR and no WARNING, and the
\* bundle is reported invalid.
C26_NonSlugWarnsNonStringFails ==
    HasName =>
        /\ bundle.manifest.name = "nonslug" =>
              /\ NameWarnings = 1 /\ NameErrors = 0
              /\ OnlyNameDefect => is_valid
        /\ bundle.manifest.name = "nonstr" =>
              /\ NameErrors = 1 /\ NameWarnings = 0
              /\ ~is_valid
        /\ bundle.manifest.name = "slug" => NameWarnings = 0 /\ NameErrors = 0

\* C26 witness: validate() returned valid on a bundle whose one issue is the
\* WARNING about its name.
C26_Witness ==
    /\ HasName /\ bundle.manifest.name = "nonslug" /\ OnlyNameDefect
    /\ is_valid
    /\ Len(issues) = 1 /\ issues[1].severity = "WARNING"

----------------------------------------------------------------------------
(* Properties of the output path *)

\* C30 as stated: package() removes a file that was at the output path only
\* when it goes on to return the path of a completely written archive; when
\* package() ends with an error, a failure of the archive write included, the
\* file that was at the output path is still there.
C30_OldFileSurvivesFailure ==
    pk.pc = "done" =>
        /\ Happened("unlink") => (pk.result = "path" /\ out_file = "new")
        /\ (pk.result = "raised" /\ Happened("ask_overwrite")) => out_file = "old"

----------------------------------------------------------------------------
(* Properties of manifest.json *)

\* The records of manifest['files'][group] for the path of node n.
RecordsOf(group, n) ==
    { r \in ManifestFiles : r.group = group /\ r.path = PathStr(n.path) }

\* The files of assets/ that the manifest lists.
ListedAssets ==
    { n \in ContentFiles : n.path[1] = <<"assets">> /\ should_include(n.path) }

\* C28: in the manifest of an archive that package() wrote, the record of an
\* asset file holds a checksum exactly when the file is smaller than
\* 10 * 1024 * 1024 bytes (a file of exactly that size has none), and every
\* asset record holds the size of the file.
C28_AssetChecksumBelowLimit ==
    Packaged =>
        /\ \A n \in ListedAssets :
              /\ Cardinality(RecordsOf("assets", n)) = 1
              /\ \A r \in RecordsOf("assets", n) :
                    /\ r.size = n.size
                    /\ (r.checksum # NoChecksum) <=> (n.size < 10 * 1024 * 1024)
                    /\ (r.checksum # NoChecksum) => r.checksum = Sha256(n.data)
        /\ \A r \in ManifestFiles :
              r.group = "assets" => \E n \in ListedAssets : r \in RecordsOf("assets", n)

\* C28 witness: a packaged bundle with an asset of exactly 10 MiB, recorded
\* without checksum, and an asset one byte smaller, recorded with checksum.
C28_Witness ==
    /\ Packaged
    /\ \E n \in ListedAssets :
          /\ n.size = 10 * 1024 * 1024
          /\ \E r \in RecordsOf("assets", n) : r.checksum = NoChecksum
    /\ \E n \in ListedAssets :
          /\ n.size = 10 * 1024 * 1024 - 1
          /\ \E r \in RecordsOf("assets", n) : r.checksum = Sha256(n.data)

\* C29 as stated: every path in a group of manifest.json 'files' (SKILL.md,
\* scripts, references, assets) is the name of an entry of the same archive,
\* and every entry below scripts/, references/ or assets/ is listed in the
\* group of its directory.
C29_ManifestMatchesEntries ==
    Packaged =>
        /\ \A r \in ManifestFiles : r.path \in EntryNames
        /\ \A i \in DOMAIN archive :
              \A d \in {"scripts", "references", "assets"} :
                  (/\ Len(archive[i].name) >= 3
                   /\ archive[i].name[1] = d /\ archive[i].name[2] = "/") =>
                      \E r \in ManifestFiles :
                          r.group = d /\ r.path = archive[i].name

----------------------------------------------------------------------------
(* Properties of the script-content rule *)

\* The script files of scripts/, at any depth, that ast.parse rejects.
BrokenScripts ==
    { n \in ContentFiles :
        /\ n.path[1] = <<"scripts">>
        /\ BaseName(n.path)[Len(BaseName(n.path))] = ".py"
        /\ n.readable /\ n.data \in BrokenScriptData }

\* The script files of scripts/, at any depth.
ScriptFiles ==
    { n \in ContentFiles :
        n.path[1] = <<"scripts">> /\ BaseName(n.path)[Len(BaseName(n.path))] = ".py" }

\* C27 as stated: every script file of scripts/, at any depth, that fails to
\* parse gets exactly one syntax ERROR issue with the reported line number
\* and no docstring, error-handling or entry-point-guard issue, and
\* validate() returns is_valid = false.
C27_SyntaxErrorAtAnyDepth ==
    (Validated /\ PreconditionsPass /\ faults = {} /\ BrokenScripts # {}) =>
        /\ CountOf(issues, "Python syntax error", "ERROR") = Cardinality(BrokenScripts)
        /\ \A i \in DOMAIN issues :
              issues[i].message = "Python syntax error" => issues[i].line_number = 2
        /\ ScriptFiles = BrokenScripts =>
              \A i \in DOMAIN issues :
                  issues[i].message \notin {"Missing module docstring",
                                            "No error handling (try/except) found",
                                            "No __main__ guard"}
        /\ is_valid = FALSE

----------------------------------------------------------------------------
(* Properties of the line numbers of the body scan *)

\* The text of SKILL.md was read and the body scan ran.
BodyScanned ==
    /\ Validated /\ PreconditionsPass /\ faults = {}
    /\ "text" \in DOMAIN bundle.manifest
    /\ bundle.manifest.starts /\ bundle.manifest.closed
    /\ bundle.manifest.yaml = "map"

\* The forbidden-pattern issues of pattern p with line number ln.
PatternIssues(p, ln) ==
    { i \in DOMAIN issues :
        /\ issues[i].message = "Found forbidden pattern"
        /\ issues[i].subject = FORBIDDEN_PATTERNS[p]
        /\ issues[i].line_number = ln }

\* C25: for a SKILL.md with n frontmatter lines between its two delimiter
\* lines, a forbidden pattern in the k-th body line gets exactly one issue
\* with line_number = k + n + 2, and every forbidden-pattern issue carries the
\* 1-based number of a line of the file that holds its pattern.
C25_LineNumberIsFileLine ==
    BodyScanned =>
        LET t == bundle.manifest.text
            n == Len(t.fm)
        IN  /\ \A k \in DOMAIN t.body : \A p \in DOMAIN FORBIDDEN_PATTERNS :
                  Cardinality(PatternIssues(p, k + n + 2)) =
                      IF PatternMatches(p, t.body[k]) THEN 1 ELSE 0
            /\ \A i \in DOMAIN issues :
                  issues[i].message = "Found forbidden pattern" =>
                      /\ issues[i].line_number \in DOMAIN FileLines(t)
                      /\ \E p \in DOMAIN FORBIDDEN_PATTERNS :
                            /\ issues[i].subject = FORBIDDEN_PATTERNS[p]
                            /\ PatternMatches(p, FileLines(t)[issues[i].line_number])

\* C25 witness: the frontmatter has two lines, the first of them ending in
\* dashes, and the pronoun in the second body line was reported at line 6.
C25_Witness ==
    /\ BodyScanned
    /\ bundle.manifest.text.fm = << <<"description:", "v", "---">>, <<"name:", "v">> >>
    /\ bundle.manifest.text.body = << <<"load", "file">>, <<"You", "load">> >>
    /\ Cardinality(PatternIssues(1, 6)) = 1

----------------------------------------------------------------------------
(* Properties of the command lines *)

\* package_skill_cli has exited.
PackagerExited == cli.prog = "package" /\ cli.exited

\* C23: in single-bundle mode the packager command line exits with code 0
\* exactly when package() returned the path of an archive, with code 1 when
\* package() raised, returned null (confirmation declined) or no bundle path
\* was given, and with code 130 on a keyboard interrupt.  It exits as soon
\* as package() has ended.
C23_PackagerExitCode ==
    cli.prog = "package" =>
        /\ pk.pc = "done" => cli.exited
        /\ (cli.exited /\ cli.has_path) => pk.pc = "done"
        /\ PackagerExited =>
              /\ cli.exit_code \in {0, 1, 130}
              /\ cli.exit_code = 0 <=> (pk.pc = "done" /\ pk.result = "path")
              /\ cli.exit_code = 130 <=> (pk.pc = "done" /\ pk.result = "interrupted")
              /\ (pk.pc = "done" /\ pk.result \in {"raised", "null"}) => cli.exit_code = 1
              /\ ~cli.has_path => (cli.exit_code = 1 /\ pk.pc = "new")
              /\ cli.exit_code = 0 => out_file = "new"

\* C23 witness: the overwrite question was answered "n"; package() returned
\* null and the command line exited with code 1.
C23_Witness ==
    /\ PackagerExited /\ cli.has_path
    /\ pk.result = "null" /\ pk.answers # <<>> /\ Happened("ask_overwrite")
    /\ cli.exit_code = 1

\* validate_skill_cli has exited after validate() returned.
ValidatorReported == cli.prog = "validate" /\ cli.exited /\ Validated

\* C24: the validator command line exits with code 0 if and only if the
\* issue list has no ERROR and, under --strict, no WARNING either; otherwise
\* it exits with code 1; the 'valid' field of the --json output is true
\* exactly when the exit code is 0.
C24_ValidatorExitCode ==
    ValidatorReported =>
        /\ cli.exit_code \in {0, 1}
        /\ cli.exit_code = 0 <=>
              /\ Count(issues, "ERROR") = 0
              /\ cli.strict => Count(issues, "WARNING") = 0
        /\ cli.json <=> cli.printed # <<>>
        /\ cli.json => (cli.printed[1] <=> cli.exit_code = 0)

\* C24 witness: under --strict --json a bundle with a WARNING and no ERROR
\* was reported with "valid": false and exit code 1.
C24_Witness ==
    /\ ValidatorReported /\ cli.strict /\ cli.json
    /\ Count(issues, "ERROR") = 0 /\ Count(issues, "WARNING") > 0
    /\ cli.printed = << FALSE >> /\ cli.exit_code = 1

----------------------------------------------------------------------------
(* package_multiple_skills: what is attempted, what is returned.            *)

\* item k of skills_dir is an immediate subdirectory with SKILL.md whose name
\* matches the pattern (lines 338-340)
Eligible(st, k) ==
    /\ st.items[k].bundle.path = "dir"
    /\ st.items[k].bundle.has_skill_md
    /\ fnmatch(st.items[k].name, st.pattern)

\* the positions of the attempts whose package() call came to `result`
AttemptsWith(st, result) ==
    SelectSeq([j \in DOMAIN st.attempts |-> j], LAMBDA j : st.results[j] = result)

\* C21: package_multiple_skills attempts every immediate subdirectory with
\* SKILL.md that matches the pattern exactly once, in the order of the
\* listing and whatever the earlier attempts came to; no other item is
\* attempted.  When it returns, the returned list is exactly the archive paths
\* of the attempts whose package() returned a path, in attempt order, and the
\* failure report is exactly the names of the attempts that raised, so a
\* bundle that raised or whose confirmation was declined is not in the
\* returned list, and a bundle that declined is in neither.
C21_BatchAttemptsAllReturnsPaths ==
    /\ \A j1, j2 \in DOMAIN batch.attempts :
          /\ Eligible(batch, batch.attempts[j1])
          /\ j1 < j2 => batch.attempts[j1] < batch.attempts[j2]
    /\ batch.pc = "returned" =>
          /\ \A k \in DOMAIN batch.items :
                Eligible(batch, k) =>
                   Cardinality({j \in DOMAIN batch.attempts : batch.attempts[j] = k}) = 1
          /\ Len(batch.results) = Len(batch.attempts)
          /\ LET ok == AttemptsWith(batch, "path")
                 bad == AttemptsWith(batch, "raised")
             IN  /\ batch.returned =
                       [m \in DOMAIN ok |-> ZipPath(batch.items, batch.attempts[ok[m]])]
                 /\ batch.failed_skills =
                       [m \in DOMAIN bad |-> batch.items[batch.attempts[bad[m]]].name]
                 /\ \A m \in DOMAIN ok : batch.outs[batch.attempts[ok[m]]] = "new"

\* C21 witness: the batch returned after two attempts, the first raised (or
\* was declined), the second was packaged and is the only path returned.
C21_Witness ==
    /\ batch.pc = "returned"
    /\ Len(batch.attempts) = 2
    /\ batch.results \in { <<"raised", "path">>, <<"null", "path">> }
    /\ batch.returned = << ZipPath(batch.items, batch.attempts[2]) >>

\* the items of skills_dir are all skill folders whose SKILL.md has the name,
\* description and license keys and no validation ERROR, with no archive at
\* the output path and nothing that keeps the archive from being written
PlainSkills(st) ==
    /\ st.dir = "dir"
    /\ st.items # <<>>
    /\ \A k \in DOMAIN st.items :
          /\ st.items[k].bundle.path = "dir"
          /\ st.items[k].bundle.has_skill_md
          /\ {"name", "description", "license"} \subseteq st.items[k].bundle.manifest.keys
          /\ ~has_errors(validate(<<>>, st.items[k].bundle, {}).issues)
          /\ st.items[k].out = "absent"
          /\ st.items[k].zip = "ok"

\* C22: on a directory whose N subdirectories are skill folders without
\* validation ERROR and without an archive yet, package_multiple_skills with
\* the pattern "*" asks nothing and returns N archive paths, each of a file
\* that exists.
C22_BatchReturnsAllWithoutAnswer ==
    (PlainSkills(batch) /\ batch.pattern = <<"*">>) =>
        /\ batch.pc \notin {"ask_continue", "ask_overwrite", "interrupted"}
        /\ batch.pc = "returned" =>
              /\ Len(batch.returned) = Len(batch.items)
              /\ \A k \in DOMAIN batch.items : batch.outs[k] = "new"

====
